---- MODULE Spec2Model ----
(***************************************************************************)
(* Model of the generation dispatchers of utils/llm_handler.py:            *)
(* configure_gemini / configure_openrouter, rate_limit_delay, the tenacity *)
(* wrapped _generate_with_retry (key rotation + model fallback) and        *)
(* _generate_with_openrouter (model fallback).                             *)
(*                                                                         *)
(* A remote generation call is modelled by a fixed outcome per             *)
(* (api key, model) pair, chosen when the caller invokes the dispatcher.   *)
(* time.sleep calls are recorded as events of the trace.                   *)
(*                                                                         *)
(* Model of the vector store of utils/rag.py (SQLiteVectorStore: the       *)
(* durable table and the in-memory mirror of each store object) and of     *)
(* get_embedding.  rag.py calls get_embedding with a text or a list of     *)
(* texts; the store model takes what that call gives (a vector, one vector *)
(* per text, or nothing) as an input of the step and assumes the call      *)
(* returns.                                                                *)
(***************************************************************************)
EXTENDS Integers, Sequences, FiniteSets, TLC

VARIABLES pc, client_config, openrouter_client, provider, model_name,
          fallback_to_flash_lite, outcome, attempt_number, models_to_try,
          errors, mi, fi, exc, result, trace,
          db, chunks, store_pc, new_entries, call, ncalls, embedding,
          io, gen, auth

\* the state of the generation dispatchers
dvars == <<pc, client_config, openrouter_client, provider, model_name,
           fallback_to_flash_lite, outcome, attempt_number, models_to_try,
           errors, mi, fi, exc, result, trace>>

\* the state of the vector store (utils/rag.py): the durable table, the
\* in-memory mirror of every store object, each object's position, the rows
\* an add_chunks call is about to insert, the last call and its return
\* value, and the number of calls made
svars == <<db, chunks, store_pc, new_entries, call, ncalls>>

\* the last call of the output normalizer or of the tabular parser, the
\* state of the card-generation batch loop (components/generator.py), and
\* the state of the user manager (utils/auth.py)
xvars == <<io, gen, auth>>

vars == <<dvars, svars, embedding, xvars>>

----------------------------------------------------------------------------
(* Bounds of the checked input space *)

\* longest fallback_keys list passed to configure_gemini
MaxFallbackKeys == 2

\* number of (key, model) pairs whose outcome differs from a quota error
MaxDeviations == 1

----------------------------------------------------------------------------
(* Values *)

None == "None"

\* Python's None where a client object is expected
NoClient == <<>>

\* api keys are character sequences, so that strip() is computed
EmptyKey == <<>>
BlankKey == <<" ">>
KeyA == <<"A">>
KeyB == <<"B">>
KeyC == <<"C">>
KeyR == <<"R">>

PrimaryKeyInputs == {EmptyKey, BlankKey, KeyA}
FallbackKeyAlphabet == {BlankKey, KeyB, KeyC}
OpenRouterKeyInputs == {EmptyKey, KeyR}

RECURSIVE SeqsUpTo(_, _)
SeqsUpTo(S, n) ==
    IF n = 0 THEN {<<>>}
    ELSE LET shorter == SeqsUpTo(S, n - 1)
         IN  shorter \cup {Append(s, x) : s \in {t \in shorter : Len(t) = n - 1}, x \in S}

FallbackKeyInputs == SeqsUpTo(FallbackKeyAlphabet, MaxFallbackKeys)

\* str.strip(): drop leading and trailing whitespace
RECURSIVE LStrip(_)
LStrip(s) == IF s # <<>> /\ Head(s) = " " THEN LStrip(Tail(s)) ELSE s

RECURSIVE RStrip(_)
RStrip(s) ==
    IF s # <<>> /\ s[Len(s)] = " " THEN RStrip(SubSeq(s, 1, Len(s) - 1)) ELSE s

Strip(s) == RStrip(LStrip(s))

\* truthiness of `key and key.strip()`
UsableKey(k) == k # <<>> /\ Strip(k) # <<>>

\* the clients built from a key list, in list order, blank keys skipped
RECURSIVE FallbackClients(_)
FallbackClients(keys) ==
    IF keys = <<>> THEN <<>>
    ELSE IF UsableKey(Head(keys))
         THEN <<Head(keys)>> \o FallbackClients(Tail(keys))
         ELSE FallbackClients(Tail(keys))

\* configure_gemini: a client is identified by the key it was built with
configure_gemini(api_key, fallback_keys) ==
    [primary   |-> IF UsableKey(api_key) THEN api_key ELSE NoClient,
     fallbacks |-> FallbackClients(fallback_keys)]

configure_openrouter(api_key) == IF UsableKey(api_key) THEN api_key ELSE NoClient

----------------------------------------------------------------------------
(* Model identifiers and pacing *)

GOOGLE_FALLBACK_MODELS ==
    <<"gemini-2.5-flash-lite", "gemini-2.5-flash", "gemini-3-flash", "gemma-3-27b-it">>

OPENROUTER_FALLBACK_MODELS ==
    <<"xiaomi/mimo-v2-flash:free", "google/gemini-2.0-flash-exp:free",
      "mistralai/devstral-2512:free", "qwen/qwen3-coder:free",
      "google/gemma-3-27b-it:free">>

GoogleRequestInputs == {"gemma-3-27b-it", "gemini-2.5-pro"}
OpenRouterRequestInputs == {"qwen/qwen3-coder:free", "openai/gpt-4o"}

\* the text of each model identifier, split at its separators
ModelText(m) ==
    CASE m = "gemini-2.5-flash-lite" -> <<"gemini", "-", "2.5", "-", "flash", "-", "lite">>
      [] m = "gemini-2.5-flash" -> <<"gemini", "-", "2.5", "-", "flash">>
      [] m = "gemini-3-flash" -> <<"gemini", "-", "3", "-", "flash">>
      [] m = "gemma-3-27b-it" -> <<"gemma", "-", "3", "-", "27b", "-", "it">>
      [] m = "gemini-2.5-pro" -> <<"gemini", "-", "2.5", "-", "pro">>
      [] m = "xiaomi/mimo-v2-flash:free" ->
            <<"xiaomi", "/", "mimo", "-", "v2", "-", "flash", ":", "free">>
      [] m = "google/gemini-2.0-flash-exp:free" ->
            <<"google", "/", "gemini", "-", "2.0", "-", "flash", "-", "exp", ":", "free">>
      [] m = "mistralai/devstral-2512:free" ->
            <<"mistralai", "/", "devstral", "-", "2512", ":", "free">>
      [] m = "qwen/qwen3-coder:free" -> <<"qwen", "/", "qwen3", "-", "coder", ":", "free">>
      [] m = "google/gemma-3-27b-it:free" ->
            <<"google", "/", "gemma", "-", "3", "-", "27b", "-", "it", ":", "free">>
      [] m = "openai/gpt-4o" -> <<"openai", "/", "gpt", "-", "4o">>

\* Python's `sub in text`
Contains(text, sub) ==
    \E i \in 1..(Len(text) - Len(sub) + 1) : SubSeq(text, i, i + Len(sub) - 1) = sub

RATE_LIMIT_GEMMA == 2
RATE_LIMIT_FLASH_LITE == 6
RATE_LIMIT_FREE == 3
RATE_LIMIT_DEFAULT == 1

\* rate_limit_delay: the number of seconds slept for a model
rate_limit_delay(m) ==
    IF Contains(ModelText(m), <<"gemma">>) THEN RATE_LIMIT_GEMMA
    ELSE IF Contains(ModelText(m), <<"flash", "-", "lite">>) THEN RATE_LIMIT_FLASH_LITE
    ELSE IF Contains(ModelText(m), <<"free">>) THEN RATE_LIMIT_FREE
    ELSE RATE_LIMIT_DEFAULT

SeqToSet(s) == {s[i] : i \in 1..Len(s)}

\* a construction without the membership test
AppendMissing_all(acc, rest) == acc \o rest

\* `for m in fallback: if m not in models_to_try: models_to_try.append(m)`
RECURSIVE AppendMissing(_, _)
AppendMissing(acc, rest) ==
    IF rest = <<>> THEN acc
    ELSE AppendMissing(IF Head(rest) \in SeqToSet(acc) THEN acc ELSE Append(acc, Head(rest)),
                       Tail(rest))

\* the cascade of _generate_with_retry
GoogleCascade(m, allow) ==
    IF allow THEN AppendMissing(<<m>>, GOOGLE_FALLBACK_MODELS) ELSE <<m>>

\* the cascade of _generate_with_openrouter
OpenRouterCascade(m) == AppendMissing(<<m>>, OPENROUTER_FALLBACK_MODELS)

----------------------------------------------------------------------------
(* Remote outcomes and error classification *)

OK == "ok"
ERR_429 == "429 RESOURCE_EXHAUSTED"
ERR_503 == "503 UNAVAILABLE"
ERR_RATE == "Rate limit exceeded"
ERR_401 == "401 UNAUTHENTICATED"

\* the outcomes a pair can deviate to from the default quota error
GoogleDeviations == {OK, ERR_503, ERR_401}
OpenRouterDeviations == {OK, ERR_503, ERR_RATE, ERR_401}

\* what the substring tests on an error message see: the markers contained
\* in the message as written, and in the lower-cased message
Markers(e) ==
    CASE e = ERR_429 -> {"429"}
      [] e = ERR_503 -> {"503"}
      [] e = ERR_401 -> {"401"}
      [] OTHER -> {}

LowerMarkers(e) ==
    CASE e = ERR_429 -> {"429", "resource_exhausted"}
      [] e = ERR_503 -> {"503", "unavailable"}
      [] e = ERR_RATE -> {"rate limit"}
      [] e = ERR_401 -> {"401", "unauthenticated"}
      [] OTHER -> {}

\* a classification that forgets the transient server error
_retry_on_api_error_no503(e) ==
    "429" \in LowerMarkers(e) \/ "resource_exhausted" \in LowerMarkers(e)

\* _retry_on_api_error
_retry_on_api_error(e) ==
    \/ "429" \in LowerMarkers(e)
    \/ "resource_exhausted" \in LowerMarkers(e)
    \/ "503" \in LowerMarkers(e)

\* a test that lets the loop continue after every error
OpenRouterSwitchesModel_always(e) == e # OK

\* the test of _generate_with_openrouter before `continue`
OpenRouterSwitchesModel(e) ==
    \/ "429" \in Markers(e)
    \/ "rate limit" \in LowerMarkers(e)
    \/ "503" \in Markers(e)

RECURSIVE SubsetsUpTo(_, _)
SubsetsUpTo(S, n) ==
    IF n = 0 THEN {{}}
    ELSE LET smaller == SubsetsUpTo(S, n - 1)
         IN  smaller \cup {D \cup {x} : D \in smaller, x \in S}

\* outcome assignments: every pair fails with a quota error except at most
\* MaxDeviations pairs, which succeed or fail with another error
OutcomeAssignments(pairs, deviations) ==
    UNION {{[p \in pairs |-> IF p \in D THEN g[p] ELSE ERR_429] : g \in [D -> deviations]}
           : D \in SubsetsUpTo(pairs, MaxDeviations)}

\* one error descriptor: f"Model {model} (Primary|Fallback {who}) Error: {e}"
\* (who = 0 for the primary client and for the single OpenRouter client)
Descriptor(m, who, e) == [model |-> m, who |-> who, err |-> e]

\* events of the trace
Event(kind, m, cred, delay, n) ==
    [ev |-> kind, model |-> m, cred |-> cred, delay |-> delay, n |-> n]

Success(m, cred) ==
    [kind |-> "Success", model |-> m, cred |-> cred, exc_type |-> None,
     msg |-> None, descriptors |-> <<>>]

Failure(type, msg, descriptors) ==
    [kind |-> "Failure", model |-> None, cred |-> NoClient, exc_type |-> type,
     msg |-> msg, descriptors |-> descriptors]

NoExc == [type |-> None, msg |-> None, descriptors |-> <<>>]
NoResult == [kind |-> None, model |-> None, cred |-> NoClient, exc_type |-> None,
             msg |-> None, descriptors |-> <<>>]

\* errors[-k:]
LastK(s, k) == IF Len(s) <= k THEN s ELSE SubSeq(s, Len(s) - k + 1, Len(s))

\* the tenacity decorator of _generate_with_retry
STOP_AFTER_ATTEMPT == 3
WAIT_MULTIPLIER == 1
WAIT_MIN == 2
WAIT_MAX == 10

Max(a, b) == IF a >= b THEN a ELSE b
Min(a, b) == IF a <= b THEN a ELSE b

\* wait_exponential(multiplier=1, min=2, max=10) after the n-th attempt
wait_exponential(n) == Max(WAIT_MIN, Min(WAIT_MULTIPLIER * 2 ^ (n - 1), WAIT_MAX))

\* a wrapper that allows one attempt more
stop_after_attempt_late(n) == n >= STOP_AFTER_ATTEMPT + 1

\* stop_after_attempt(3)
stop_after_attempt(n) == n >= STOP_AFTER_ATTEMPT

----------------------------------------------------------------------------
(* Vector store (utils/rag.py): bounds and values *)

\* number of calls (constructions, add_chunks, search, clear) made in a run
MaxCalls == 2

\* The ceiling is 5000 and the batch size 100 in the source.  The model
\* keeps the code's comparisons and scales the two numbers down, so that a
\* store can be filled and a call can span several batches.
MAX_VECTOR_STORE_CHUNKS == 3
BATCH_SIZE == 2

MIN_CHUNK_LENGTH == 50

\* the store objects that share the durable file DB_PATH (one per session)
Stores == {1, 2}

\* a text is known by its words and its length in characters
Text(name, n) == [name |-> name, len |-> n]

\* len(text)
Length(t) == t.len

apple         == Text("apple", 5)
mitochondria  == Text("a phrase about mitochondria", 50)
mitochondrion == Text("another phrase about mitochondria", 80)
ribosomes     == Text("a phrase about ribosomes", 60)
blank         == Text("a phrase no model has seen", 55)

TextInputs == {apple, mitochondria, mitochondrion, ribosomes, blank}

\* the vector the embedding model gives a text when the call succeeds: the
\* same text always gets the same vector; two of the texts get parallel
\* vectors and one gets the zero vector
EmbeddingOf(t) ==
    CASE t = apple         -> <<0, 1>>
      [] t = mitochondria  -> <<1, 0>>
      [] t = mitochondrion -> <<2, 0>>
      [] t = ribosomes     -> <<1, 1>>
      [] t = blank         -> <<0, 0>>

\* the empty (falsy) result of an embedding call that failed
NoEmbedding == <<>>

\* the outcome of an operation: the value it returns or the exception it
\* raises
Returned(v) == [raised |-> None, value |-> v]
Raised(e) == [raised |-> e, value |-> <<>>]

\* metadata dictionaries, as sets of (key, value) pairs: {} and
\* {"source": name}
EmptyDict == {}
SourceDict(name) == {<<"source", name>>}

\* the metadata_list argument of add_chunks: absent (None), or one
\* dictionary per text as the generator passes it
NoList == <<>>
SourceList(n) == [i \in 1..n |-> SourceDict("doc")]

\* the calls add_chunks(texts, metadata_list=...) made on a store: a text of
\* a few characters as in the tests, two texts as in the example of the
\* specification, two texts with parallel vectors, a list with a short text
\* in the middle, and a list that spans two batches
AddInputs ==
    {[texts |-> <<apple>>, metadata_list |-> NoList],
     [texts |-> <<mitochondria, ribosomes>>, metadata_list |-> NoList],
     [texts |-> <<mitochondria, mitochondrion>>, metadata_list |-> SourceList(2)],
     [texts |-> <<blank, apple, mitochondrion>>, metadata_list |-> SourceList(3)],
     [texts |-> <<mitochondria, ribosomes, mitochondrion>>, metadata_list |-> SourceList(3)]}

\* the queries and the values of k passed to search
QueryInputs == TextInputs
KInputs == {1, 2}

\* json.dumps of a metadata dictionary, as the tokens of the JSON text
json_dumps(m) ==
    IF m = EmptyDict THEN <<"{", "}">>
    ELSE LET kv == CHOOSE p \in m : TRUE
         IN <<"{", kv[1], ":", kv[2], "}">>

\* json.loads: the dictionary, or JSONDecodeError for a text that is no
\* JSON object
json_loads(j) ==
    IF j = <<"{", "}">> THEN Returned(EmptyDict)
    ELSE IF Len(j) = 5 /\ j[1] = "{" /\ j[3] = ":" /\ j[5] = "}"
         THEN Returned({<<j[2], j[4]>>})
         ELSE Raised("JSONDecodeError")

\* np.array(emb, dtype=np.float32).tobytes(): a bytes value, four bytes per
\* component
tobytes(v) == [type |-> "bytes", nbytes |-> 4 * Len(v), data |-> v]

\* np.frombuffer(blob, dtype=np.float32): the components; TypeError for a
\* value that is no bytes-like object (SQLite hands back a value in the
\* storage class it was written in, whatever the declared column type);
\* ValueError when the buffer size is no multiple of the element size
frombuffer(b) ==
    IF b.type # "bytes" THEN Raised("TypeError")
    ELSE IF b.nbytes % 4 = 0 THEN Returned(b.data) ELSE Raised("ValueError")

\* an entry of self.chunks, and a row of the durable table
Chunk(text, metadata, emb) == [text |-> text, metadata |-> metadata, embedding |-> emb]
Row(text, metadata, emb) ==
    [text |-> text, metadata |-> json_dumps(metadata), embedding |-> tobytes(emb)]

\* no call made yet on a store object
NoCall == [op |-> None, store |-> 0]

\* two sessions have constructed their store objects on an empty durable file

StoreInit ==
    /\ db = <<>>
    /\ chunks = [s \in Stores |-> <<>>]
    /\ store_pc = [s \in Stores |-> "idle"]
    /\ new_entries = [s \in Stores |-> <<>>]
    /\ call = NoCall
    /\ ncalls = 0

\* nothing normalized or parsed yet, no batch started, no user manager built
XInit ==
    /\ io = [op |-> None]
    /\ gen = [pc |-> "idle"]
    /\ auth = [op |-> None]

----------------------------------------------------------------------------
(* State machine *)

DispatcherInit ==
    /\ pc = "idle"
    /\ client_config = [primary |-> NoClient, fallbacks |-> <<>>]
    /\ openrouter_client = NoClient
    /\ provider = None
    /\ model_name = None
    /\ fallback_to_flash_lite = TRUE
    /\ outcome = << >>
    /\ attempt_number = 0
    /\ models_to_try = <<>>
    /\ errors = <<>>
    /\ mi = 0
    /\ fi = 0
    /\ exc = NoExc
    /\ result = NoResult
    /\ trace = <<>>

Init ==
    /\ DispatcherInit
    /\ StoreInit
    /\ embedding = [op |-> None]
    /\ XInit

\* the sidebar configures the Google provider
ConfigureGemini ==
    /\ pc = "idle"
    /\ \E api_key \in PrimaryKeyInputs, fallback_keys \in FallbackKeyInputs :
          client_config' = configure_gemini(api_key, fallback_keys)
    /\ provider' = "google"
    /\ pc' = "configured"
    /\ UNCHANGED <<svars, embedding, xvars>>
    /\ UNCHANGED <<openrouter_client, model_name, fallback_to_flash_lite, outcome,
                   attempt_number, models_to_try, errors, mi, fi, exc, result, trace>>

\* the sidebar configures the OpenRouter provider
ConfigureOpenRouter ==
    /\ pc = "idle"
    /\ \E api_key \in OpenRouterKeyInputs :
          openrouter_client' = configure_openrouter(api_key)
    /\ provider' = "openrouter"
    /\ pc' = "configured"
    /\ UNCHANGED <<svars, embedding, xvars>>
    /\ UNCHANGED <<client_config, model_name, fallback_to_flash_lite, outcome,
                   attempt_number, models_to_try, errors, mi, fi, exc, result, trace>>

\* the clients a Google configuration holds
ConfiguredClients(cfg) == ({cfg.primary} \ {NoClient}) \cup SeqToSet(cfg.fallbacks)

\* a caller (process_chunk, get_chat_response, ...) invokes _generate_with_retry;
\* the remote behaviour for the call is fixed here
CallGoogle ==
    /\ pc = "configured"
    /\ provider = "google"
    /\ \E m \in GoogleRequestInputs, allow \in BOOLEAN :
          /\ model_name' = m
          /\ fallback_to_flash_lite' = allow
          /\ outcome' \in OutcomeAssignments(
                 ConfiguredClients(client_config) \X SeqToSet(GoogleCascade(m, allow)),
                 GoogleDeviations)
    /\ attempt_number' = 1
    /\ pc' = "invoke"
    /\ UNCHANGED <<svars, embedding, xvars>>
    /\ UNCHANGED <<client_config, openrouter_client, provider, models_to_try,
                   errors, mi, fi, exc, result, trace>>

\* a caller invokes _generate_with_openrouter
CallOpenRouter ==
    /\ pc = "configured"
    /\ provider = "openrouter"
    /\ \E m \in OpenRouterRequestInputs :
          /\ model_name' = m
          /\ outcome' \in OutcomeAssignments(
                 ({openrouter_client} \ {NoClient}) \X SeqToSet(OpenRouterCascade(m)),
                 OpenRouterDeviations)
    /\ attempt_number' = 1
    /\ pc' = "invoke"
    /\ UNCHANGED <<svars, embedding, xvars>>
    /\ UNCHANGED <<client_config, openrouter_client, provider, fallback_to_flash_lite,
                   models_to_try, errors, mi, fi, exc, result, trace>>

\* what the model loop of _generate_with_retry does after the attempts on
\* models_to_try[mi] are over: next model, or the raise after the loop
GoogleNextModel(errs) ==
    IF mi < Len(models_to_try)
    THEN /\ mi' = mi + 1
         /\ pc' = "primary"
         /\ exc' = exc
    ELSE /\ mi' = mi
         /\ pc' = "raised"
         /\ exc' = [type |-> "Exception", msg |-> "All attempts failed",
                    descriptors |-> errs]

\* _generate_with_retry, from its entry to the start of the model loop
GoogleEnter ==
    /\ pc = "invoke"
    /\ provider = "google"
    /\ IF client_config.primary = NoClient
       THEN /\ pc' = "raised"
            /\ exc' = [type |-> "ValueError", msg |-> "Google API Key not configured.",
                       descriptors |-> <<>>]
            /\ UNCHANGED <<models_to_try, errors, mi, trace>>
       ELSE /\ trace' = Append(trace, Event("pace", model_name, NoClient,
                                            rate_limit_delay(model_name), attempt_number))
            /\ models_to_try' = GoogleCascade(model_name, fallback_to_flash_lite)
            /\ errors' = <<>>
            /\ mi' = 1
            /\ pc' = "primary"
            /\ exc' = exc
    /\ fi' = 0
    /\ UNCHANGED <<svars, embedding, xvars>>
    /\ UNCHANGED <<client_config, openrouter_client, provider, model_name,
                   fallback_to_flash_lite, outcome, attempt_number, result>>

\* one iteration of the model loop up to the end of the primary attempt
GooglePrimary ==
    /\ pc = "primary"
    /\ LET m == models_to_try[mi]
           client == client_config.primary
           o == outcome[<<client, m>>]
           errs == Append(errors, Descriptor(m, 0, o))
       IN  /\ trace' = Append(trace, Event("attempt", m, client, 0, attempt_number))
           /\ IF o = OK
              THEN /\ result' = Success(m, client)
                   /\ pc' = "done"
                   /\ UNCHANGED <<errors, mi, fi, exc>>
              ELSE /\ errors' = errs
                   /\ result' = result
                   /\ IF _retry_on_api_error(o) /\ client_config.fallbacks # <<>>
                      THEN /\ pc' = "fallback"
                           /\ fi' = 1
                           /\ UNCHANGED <<mi, exc>>
                      ELSE /\ fi' = 0
                           /\ GoogleNextModel(errs)
    /\ UNCHANGED <<svars, embedding, xvars>>
    /\ UNCHANGED <<client_config, openrouter_client, provider, model_name,
                   fallback_to_flash_lite, outcome, attempt_number, models_to_try>>

\* a rotation that walks the fallback list from its end
FallbackAt_reversed(cfg, i) == cfg.fallbacks[Len(cfg.fallbacks) - i + 1]

\* `for idx, client in enumerate(fallback_clients)`: the client of iteration i
FallbackAt(cfg, i) == cfg.fallbacks[i]

\* one iteration of the key rotation loop
GoogleFallback ==
    /\ pc = "fallback"
    /\ LET m == models_to_try[mi]
           client == FallbackAt(client_config, fi)
           o == outcome[<<client, m>>]
           errs == Append(errors, Descriptor(m, fi, o))
       IN  /\ trace' = trace \o <<Event("sleep", m, NoClient, 1, attempt_number),
                                  Event("attempt", m, client, 0, attempt_number)>>
           /\ IF o = OK
              THEN /\ result' = Success(m, client)
                   /\ pc' = "done"
                   /\ UNCHANGED <<errors, mi, fi, exc>>
              ELSE /\ errors' = errs
                   /\ result' = result
                   /\ IF fi < Len(client_config.fallbacks)
                      THEN /\ fi' = fi + 1
                           /\ UNCHANGED <<pc, mi, exc>>
                      ELSE /\ fi' = 0
                           /\ GoogleNextModel(errs)
    /\ UNCHANGED <<svars, embedding, xvars>>
    /\ UNCHANGED <<client_config, openrouter_client, provider, model_name,
                   fallback_to_flash_lite, outcome, attempt_number, models_to_try>>

\* tenacity: the wrapped call raised and the stop condition is not met
TenacityRetry ==
    /\ pc = "raised"
    /\ ~stop_after_attempt(attempt_number)
    /\ trace' = Append(trace, Event("backoff", model_name, NoClient,
                                    wait_exponential(attempt_number), attempt_number))
    /\ attempt_number' = attempt_number + 1
    /\ pc' = "invoke"
    /\ UNCHANGED <<svars, embedding, xvars>>
    /\ UNCHANGED <<client_config, openrouter_client, provider, model_name,
                   fallback_to_flash_lite, outcome, models_to_try, errors, mi, fi,
                   exc, result>>

\* tenacity: the wrapped call raised and the stop condition is met; the
\* caller gets a RetryError that holds the last attempt's exception
TenacityStop ==
    /\ pc = "raised"
    /\ stop_after_attempt(attempt_number)
    /\ result' = Failure("RetryError", exc.msg, exc.descriptors)
    /\ pc' = "done"
    /\ UNCHANGED <<svars, embedding, xvars>>
    /\ UNCHANGED <<client_config, openrouter_client, provider, model_name,
                   fallback_to_flash_lite, outcome, attempt_number, models_to_try,
                   errors, mi, fi, exc, trace>>

\* _generate_with_openrouter, from its entry to the start of the model loop
OpenRouterEnter ==
    /\ pc = "invoke"
    /\ provider = "openrouter"
    /\ IF openrouter_client = NoClient
       THEN /\ result' = Failure("ValueError", "OpenRouter API Key not configured.", <<>>)
            /\ pc' = "done"
            /\ UNCHANGED <<models_to_try, errors, mi>>
       ELSE /\ models_to_try' = OpenRouterCascade(model_name)
            /\ errors' = <<>>
            /\ mi' = 1
            /\ pc' = "or_attempt"
            /\ result' = result
    /\ UNCHANGED <<svars, embedding, xvars>>
    /\ UNCHANGED <<client_config, openrouter_client, provider, model_name,
                   fallback_to_flash_lite, outcome, attempt_number, fi, exc, trace>>

\* one iteration of the model loop of _generate_with_openrouter
OpenRouterAttempt ==
    /\ pc = "or_attempt"
    /\ LET m == models_to_try[mi]
           o == outcome[<<openrouter_client, m>>]
           errs == Append(errors, Descriptor(m, 0, o))
           pause == IF errors # <<>>
                    THEN <<Event("sleep", m, NoClient, 1, attempt_number)>> ELSE <<>>
       IN  /\ trace' = trace
                       \o <<Event("pace", m, NoClient, rate_limit_delay(m), attempt_number)>>
                       \o pause
                       \o <<Event("attempt", m, openrouter_client, 0, attempt_number)>>
           /\ IF o = OK
              THEN /\ result' = Success(m, openrouter_client)
                   /\ pc' = "done"
                   /\ UNCHANGED <<errors, mi>>
              ELSE /\ errors' = errs
                   /\ IF OpenRouterSwitchesModel(o)
                      THEN IF mi < Len(models_to_try)
                           THEN /\ mi' = mi + 1
                                /\ UNCHANGED <<pc, result>>
                           ELSE /\ mi' = mi
                                /\ pc' = "done"
                                /\ result' = Failure("Exception", "All OpenRouter models failed",
                                                     LastK(errs, 3))
                      ELSE /\ mi' = mi
                           /\ pc' = "done"
                           /\ result' = Failure("Exception", "OpenRouter Critical Error",
                                                <<Descriptor(m, 0, o)>>)
    /\ UNCHANGED <<svars, embedding, xvars>>
    /\ UNCHANGED <<client_config, openrouter_client, provider, model_name,
                   fallback_to_flash_lite, outcome, attempt_number, models_to_try,
                   fi, exc>>

Next ==
    \/ ConfigureGemini
    \/ ConfigureOpenRouter
    \/ CallGoogle
    \/ CallOpenRouter
    \/ GoogleEnter
    \/ GooglePrimary
    \/ GoogleFallback
    \/ TenacityRetry
    \/ TenacityStop
    \/ OpenRouterEnter
    \/ OpenRouterAttempt

Spec == Init /\ [][Next]_vars

----------------------------------------------------------------------------
(* Vector store: SQLiteVectorStore *)

\* _load_cache, the body of the inner try: the chunk of a row, or the
\* exception that decoding its blob or, after it, its metadata raises
_load_row(row) ==
    LET embedding_ == frombuffer(row.embedding)
        metadata == IF row.metadata # <<>> THEN json_loads(row.metadata)
                    ELSE Returned(EmptyDict)
    IN IF embedding_.raised # None THEN Raised(embedding_.raised)
       ELSE IF metadata.raised # None THEN Raised(metadata.raised)
       ELSE Returned(Chunk(row.text, metadata.value, embedding_.value))

\* the exceptions of `except (ValueError, json.JSONDecodeError)`
SkippedErrors == {"ValueError", "JSONDecodeError"}

\* _load_cache: self.chunks rebuilt from the rows of the table, in table
\* order; a row raising one of the skipped errors is passed over, and any
\* other exception leaves the row loop for the outer `except Exception`,
\* which keeps what was appended so far
RECURSIVE _load_cache(_)
_load_cache(rows) ==
    IF rows = <<>> THEN <<>>
    ELSE LET r == _load_row(Head(rows))
         IN IF r.raised = None THEN <<r.value>> \o _load_cache(Tail(rows))
            ELSE IF r.raised \in SkippedErrors THEN _load_cache(Tail(rows))
            ELSE <<>>

\* add_chunks: `if not metadata_list: metadata_list = [{}] * len(chunks)`
DefaultMetadata(metadata_list, n) ==
    IF metadata_list = NoList THEN [i \in 1..n |-> EmptyDict] ELSE metadata_list

\* add_chunks, the capacity check: slots left for a store holding `held`
remaining_slots(held) == MAX_VECTOR_STORE_CHUNKS - held

\* a variant of Truncate that forgets the cut
Truncate_none(xs, held) == xs

\* add_chunks, the capacity check applied to an incoming list (the texts,
\* and the metadata list of the same length); the early return processes
\* nothing
Truncate(xs, held) ==
    IF held + Len(xs) > MAX_VECTOR_STORE_CHUNKS
    THEN IF remaining_slots(held) <= 0 THEN <<>>
         ELSE SubSeq(xs, 1, remaining_slots(held))
    ELSE xs

\* a variant of valid_indices that keeps every text
valid_indices_all(texts) == [i \in 1..Len(texts) |-> i]

\* add_chunks: the indices of the texts long enough to be embedded
valid_indices(texts) ==
    SelectSeq([i \in 1..Len(texts) |-> i],
              LAMBDA i : Length(texts[i]) >= MIN_CHUNK_LENGTH)

\* add_chunks: range(0, len(valid_indices), BATCH_SIZE) and the b-th slice
NumBatches(valid) == (Len(valid) + BATCH_SIZE - 1) \div BATCH_SIZE
Batch(valid, b) ==
    SubSeq(valid, (b - 1) * BATCH_SIZE + 1, Min(b * BATCH_SIZE, Len(valid)))

\* the behaviours of the embedding calls of one add_chunks call: the batches
\* whose batch call returns one vector per text, and the texts (of the other
\* batches) whose individual call returns nothing
EmbeddingOracles(valid) ==
    {o \in [batch_ok : SUBSET (1..NumBatches(valid)), fails : SUBSET SeqToSet(valid)] :
        \A b \in o.batch_ok : SeqToSet(Batch(valid, b)) \cap o.fails = {}}

\* a variant of BatchEmbeddings that gives up a batch whose batch call failed
BatchEmbeddings_discard(texts, batch, b, oracle) ==
    [j \in 1..Len(batch) |->
        IF b \in oracle.batch_ok THEN EmbeddingOf(texts[batch[j]]) ELSE NoEmbedding]

\* add_chunks: the embeddings of one batch, from the batch call or, when it
\* failed or returned a wrong count, from one call per text
BatchEmbeddings(texts, batch, b, oracle) ==
    [j \in 1..Len(batch) |->
        IF b \in oracle.batch_ok \/ batch[j] \notin oracle.fails
        THEN EmbeddingOf(texts[batch[j]])
        ELSE NoEmbedding]

\* a variant of BatchChunks that takes the metadata at the position within
\* the batch
BatchChunks_by_position(texts, metadata_list, batch, embeddings) ==
    LET kept == SelectSeq([j \in 1..Len(batch) |-> j],
                          LAMBDA j : embeddings[j] # NoEmbedding)
    IN [i \in 1..Len(kept) |->
          Chunk(texts[batch[kept[i]]], metadata_list[kept[i]], embeddings[kept[i]])]

\* add_chunks: the chunks of one batch, one per non-empty embedding
BatchChunks(texts, metadata_list, batch, embeddings) ==
    LET kept == SelectSeq([j \in 1..Len(batch) |-> j],
                          LAMBDA j : embeddings[j] # NoEmbedding)
    IN [i \in 1..Len(kept) |->
          Chunk(texts[batch[kept[i]]], metadata_list[batch[kept[i]]],
                embeddings[kept[i]])]

\* add_chunks, the batch loop from batch b on: the chunks appended to
\* self.chunks (and, as rows, to new_entries), in order
RECURSIVE NewChunks(_, _, _, _, _)
NewChunks(texts, metadata_list, valid, b, oracle) ==
    IF b > NumBatches(valid) THEN <<>>
    ELSE BatchChunks(texts, metadata_list, Batch(valid, b),
                     BatchEmbeddings(texts, Batch(valid, b), b, oracle))
         \o NewChunks(texts, metadata_list, valid, b + 1, oracle)

\* the rows add_chunks builds for the chunks it accepted
Rows(cs) == [i \in 1..Len(cs) |-> Row(cs[i].text, cs[i].metadata, cs[i].embedding)]

\* np.dot of two vectors and the square of np.linalg.norm
RECURSIVE Dot(_, _)
Dot(u, v) == IF u = <<>> THEN 0 ELSE Head(u) * Head(v) + Dot(Tail(u), Tail(v))
NormSq(v) == Dot(v, v)

\* a variant of Score that does not divide by the norms
Score_unnormalised(emb, q_vec) == [dot |-> Dot(emb, q_vec), div |-> 1]

\* a variant of Score without `norms[norms == 0] = 1e-10`
Score_zero_divisor(emb, q_vec) ==
    [dot |-> Dot(emb, q_vec), div |-> NormSq(emb) * NormSq(q_vec)]

\* search: the score dot / (norm * q_norm) of a stored embedding, kept as
\* the dot product and the square of the divisor; a stored norm of 0 is
\* replaced (by 1e-10 in the code) and the dot product is then 0
Score(emb, q_vec) ==
    [dot |-> Dot(emb, q_vec),
     div |-> (IF NormSq(emb) = 0 THEN 1 ELSE NormSq(emb)) * NormSq(q_vec)]

\* x * |x|, which orders as x does
SignedSquare(x) == IF x >= 0 THEN x * x ELSE 0 - x * x

\* a <= b and a < b for two scores: dot_a / sqrt(div_a) against
\* dot_b / sqrt(div_b)
ScoreLeq(a, b) == SignedSquare(a.dot) * b.div <= SignedSquare(b.dot) * a.div
ScoreLess(a, b) == ~ScoreLeq(b, a)

\* np.argsort(scores): the index orders that sort the scores ascending;
\* equal scores may come out in any order
RECURSIVE argsort(_, _)
argsort(scores, rem) ==
    IF rem = {} THEN {<<>>}
    ELSE UNION {{<<i>> \o p : p \in argsort(scores, rem \ {i})} :
                  i \in {i \in rem : \A j \in rem : ScoreLeq(scores[i], scores[j])}}

\* s[::-1] and s[:k]
Reverse(s) == [i \in 1..Len(s) |-> s[Len(s) + 1 - i]]
Take(s, k) == SubSeq(s, 1, Min(k, Len(s)))

\* a variant of top_indices that forgets the reversal
top_indices_ascending(scores, k) ==
    {Take(p, k) : p \in argsort(scores, DOMAIN scores)}

\* search: np.argsort(scores)[::-1][:k]
top_indices(scores, k) ==
    {Take(Reverse(p), k) : p \in argsort(scores, DOMAIN scores)}

\* a variant of search without the `if not query_emb` return: the dot
\* product of the matrix with an empty vector raises
search_unguarded(cs, query_emb, k) ==
    IF cs = <<>> THEN {Returned(<<>>)}
    ELSE IF query_emb = NoEmbedding THEN {Raised("ValueError")}
    ELSE IF NormSq(query_emb) = 0 THEN {Returned(<<>>)}
    ELSE LET scores == [i \in 1..Len(cs) |-> Score(cs[i].embedding, query_emb)]
         IN {Returned([i \in 1..Len(top) |-> cs[top[i]]]) :
                top \in top_indices(scores, k)}

\* search on the mirror cs, for the value query_emb the embedding call
\* gives: the results it can return
search(cs, query_emb, k) ==
    IF cs = <<>> THEN {Returned(<<>>)}
    ELSE IF query_emb = NoEmbedding THEN {Returned(<<>>)}
    ELSE IF NormSq(query_emb) = 0 THEN {Returned(<<>>)}
    ELSE LET scores == [i \in 1..Len(cs) |-> Score(cs[i].embedding, query_emb)]
         IN {Returned([i \in 1..Len(top) |-> cs[top[i]]]) :
                top \in top_indices(scores, k)}

\* the record of the last call made on a store object
AddCall(s, texts, metadata_list, before, oracle, completed) ==
    [op |-> "add_chunks", store |-> s, texts |-> texts,
     metadata_list |-> metadata_list, before |-> before, oracle |-> oracle,
     completed |-> completed]
InsertCall(s, db_error) ==
    [op |-> "add_chunks.insert", store |-> s, db_error |-> db_error]
SearchCall(s, query, k, query_emb, ret) ==
    [op |-> "search", store |-> s, query |-> query, k |-> k,
     query_emb |-> query_emb, before |-> <<chunks[s], db>>, ret |-> ret]
ClearCall(s, db_error) == [op |-> "clear", store |-> s, db_error |-> db_error]
InitCall(s, db_error) == [op |-> "__init__", store |-> s, db_error |-> db_error]

\* SQLiteVectorStore(): a session builds its store object anew on the same
\* file; a database error while loading is logged and leaves the mirror
\* empty
Construct ==
    /\ ncalls < MaxCalls
    /\ \E s \in Stores, db_error \in BOOLEAN :
          /\ store_pc[s] = "idle"
          /\ chunks' = [chunks EXCEPT ![s] = IF db_error THEN <<>> ELSE _load_cache(db)]
          /\ call' = InitCall(s, db_error)
    /\ ncalls' = ncalls + 1
    /\ UNCHANGED <<db, store_pc, new_entries>>
    /\ UNCHANGED <<dvars, embedding, xvars>>

\* add_chunks up to the end of the batch loop: the accepted chunks are
\* appended to self.chunks and their rows collected in new_entries
AddChunks ==
    /\ ncalls < MaxCalls
    /\ \E s \in Stores, input \in AddInputs :
          /\ store_pc[s] = "idle"
          /\ LET texts == input.texts
                 metadata_list == input.metadata_list
                 held == Len(chunks[s])
                 ts == Truncate(texts, held)
                 ms == Truncate(DefaultMetadata(metadata_list, Len(texts)), held)
                 valid == valid_indices(ts)
             IN \E oracle \in EmbeddingOracles(valid) :
                  LET added == NewChunks(ts, ms, valid, 1, oracle)
                  IN /\ chunks' = [chunks EXCEPT ![s] = @ \o added]
                     /\ new_entries' = [new_entries EXCEPT ![s] = Rows(added)]
                     /\ store_pc' = [store_pc EXCEPT
                                       ![s] = IF added = <<>> THEN "idle" ELSE "insert"]
                     /\ call' = AddCall(s, texts, metadata_list, chunks[s], oracle,
                                        added = <<>>)
    /\ ncalls' = ncalls + 1
    /\ UNCHANGED db
    /\ UNCHANGED <<dvars, embedding, xvars>>

\* add_chunks, the bulk insert: one transaction; a database error is
\* logged and the call returns
AddChunksInsert ==
    /\ \E s \in Stores, db_error \in BOOLEAN :
          /\ store_pc[s] = "insert"
          /\ db' = IF db_error THEN db ELSE db \o new_entries[s]
          /\ new_entries' = [new_entries EXCEPT ![s] = <<>>]
          /\ store_pc' = [store_pc EXCEPT ![s] = "idle"]
          /\ call' = InsertCall(s, db_error)
    /\ UNCHANGED <<chunks, ncalls>>
    /\ UNCHANGED <<dvars, embedding, xvars>>

\* search(query, k): the embedding call gives the query's vector or nothing
Search ==
    /\ ncalls < MaxCalls
    /\ \E s \in Stores, query \in QueryInputs, k \in KInputs, available \in BOOLEAN :
          /\ store_pc[s] = "idle"
          /\ LET query_emb == IF available THEN EmbeddingOf(query) ELSE NoEmbedding
             IN \E ret \in search(chunks[s], query_emb, k) :
                   call' = SearchCall(s, query, k, query_emb, ret)
    /\ ncalls' = ncalls + 1
    /\ UNCHANGED <<db, chunks, store_pc, new_entries>>
    /\ UNCHANGED <<dvars, embedding, xvars>>

\* clear(): DELETE and commit, then self.chunks = []; a database error
\* before that is logged and the call returns
Clear ==
    /\ ncalls < MaxCalls
    /\ \E s \in Stores, db_error \in BOOLEAN :
          /\ store_pc[s] = "idle"
          /\ IF db_error THEN UNCHANGED <<db, chunks>>
             ELSE /\ db' = <<>>
                  /\ chunks' = [chunks EXCEPT ![s] = <<>>]
          /\ call' = ClearCall(s, db_error)
    /\ ncalls' = ncalls + 1
    /\ UNCHANGED <<store_pc, new_entries>>
    /\ UNCHANGED <<dvars, embedding, xvars>>

StoreNext ==
    \/ Construct
    \/ AddChunks
    \/ AddChunksInsert
    \/ Search
    \/ Clear

StoreSpec == Init /\ [][StoreNext]_vars

----------------------------------------------------------------------------
(* Vector store opened on a file that holds damaged records *)

\* the longest table a store is opened on
MaxRows == 3

\* a row as add_chunks writes it, with and without metadata
GoodRow(t) == Row(t, SourceDict("doc"), EmbeddingOf(t))
PlainRow(t) == Row(t, EmptyDict, EmbeddingOf(t))

\* a row whose metadata column is NULL: `if meta_json else {}`
NullMetadataRow(t) == [PlainRow(t) EXCEPT !.metadata = <<>>]

\* a row whose blob lost its last byte: np.frombuffer raises ValueError
TruncatedBlobRow(t) ==
    [GoodRow(t) EXCEPT !.embedding = [type |-> "bytes",
                                      nbytes |-> 4 * Len(EmbeddingOf(t)) - 1,
                                      data |-> EmbeddingOf(t)]]

\* a row whose metadata text was cut: json.loads raises JSONDecodeError
BadJsonRow(t) == [GoodRow(t) EXCEPT !.metadata = <<"{", "source", ":">>]

\* a row whose embedding column holds a text value instead of a blob:
\* np.frombuffer raises TypeError
TextEmbeddingRow(t) ==
    [GoodRow(t) EXCEPT !.embedding = [type |-> "str", nbytes |-> 8, data |-> <<>>]]

\* the records a file can hold
RowInputs ==
    {GoodRow(mitochondria), PlainRow(ribosomes), NullMetadataRow(mitochondrion),
     TruncatedBlobRow(ribosomes), BadJsonRow(mitochondria),
     TextEmbeddingRow(mitochondrion)}

\* the tables of at most MaxRows records
Tables == UNION {[1..n -> RowInputs] : n \in 0..MaxRows}

\* no store object built yet, on a file written earlier
LoadInit ==
    /\ DispatcherInit
    /\ db \in Tables
    /\ chunks = [s \in Stores |-> <<>>]
    /\ store_pc = [s \in Stores |-> "idle"]
    /\ new_entries = [s \in Stores |-> <<>>]
    /\ call = NoCall
    /\ ncalls = 0
    /\ embedding = [op |-> None]
    /\ XInit

LoadNext == Construct

LoadSpec == LoadInit /\ [][LoadNext]_vars

----------------------------------------------------------------------------
(* Output normalizer: the cleanup at the end of process_chunk *)

\* the most lines a response of the model has
MaxLines == 3

\* the characters of a response that the cleanup tells apart: the field
\* quote, the two delimiters, the line end, the code fence (three
\* backquotes, one token here), its language tag, the form feed, the blank,
\* the comma and a letter
Q == "\""
TAB == "\t"
PIPE == "|"
NL == "\n"
FENCE == "<fence>"
LANG == "csv"
FF == "\f"
SP == " "
COMMA == ","
Letter == "a"

\* a text is the sequence of its characters; the characters str.strip()
\* takes off, and the line boundaries of str.splitlines()
Whitespace == {SP, TAB, NL, FF}
LineBoundaries == {NL, FF}

\* str.strip()
RECURSIVE lstrip(_)
lstrip(text) ==
    IF text # <<>> /\ Head(text) \in Whitespace THEN lstrip(Tail(text)) ELSE text
RECURSIVE rstrip(_)
rstrip(text) ==
    IF text # <<>> /\ text[Len(text)] \in Whitespace
    THEN rstrip(SubSeq(text, 1, Len(text) - 1))
    ELSE text
strip(text) == rstrip(lstrip(text))

\* the first position at or after i that holds a character of cs, or 0
RECURSIVE find(_, _, _)
find(text, cs, i) ==
    IF i > Len(text) THEN 0
    ELSE IF text[i] \in cs THEN i
    ELSE find(text, cs, i + 1)

\* str.splitlines(): the lines between the line boundaries, without a last
\* empty line
RECURSIVE splitlines(_)
splitlines(text) ==
    IF text = <<>> THEN <<>>
    ELSE LET i == find(text, LineBoundaries, 1)
         IN IF i = 0 THEN <<text>>
            ELSE <<SubSeq(text, 1, i - 1)>> \o splitlines(SubSeq(text, i + 1, Len(text)))

\* sep.join(lines)
RECURSIVE join(_, _)
join(lines, sep) ==
    IF lines = <<>> THEN <<>>
    ELSE IF Len(lines) = 1 THEN lines[1]
    ELSE lines[1] \o <<sep>> \o join(Tail(lines), sep)

\* re.search(r"```(?:csv|tsv)?\s*(.*?)```", text, re.DOTALL | re.IGNORECASE):
\* the leftmost fence that has a fence after it, an optional language tag,
\* white space, and as group 1 the text up to the next fence
fence_search(text) ==
    LET i == find(text, {FENCE}, 1)
        j == IF i = 0 THEN 0 ELSE find(text, {FENCE}, i + 1)
        a == IF j > i + 1 /\ text[i + 1] = LANG THEN i + 2 ELSE i + 1
    IN IF j = 0 THEN [found |-> FALSE, group |-> <<>>]
       ELSE [found |-> TRUE, group |-> lstrip(SubSeq(text, a, j - 1))]

\* process_chunk, lines 362-368: the stripped response, or the stripped
\* content of its first fenced block
unfence(text_resp) ==
    LET text == strip(text_resp)
        match == fence_search(text)
    IN IF Contains(text, <<FENCE>>) /\ match.found THEN strip(match.group) ELSE text

\* process_chunk, line 377: the line holds a quote and a tab or a pipe
looks_like_row(line) ==
    Contains(line, <<Q>>) /\ (Contains(line, <<TAB>>) \/ Contains(line, <<PIPE>>))

\* a variant of clean_lines that keeps every line that is not blank
clean_lines_unfiltered(text) ==
    SelectSeq([i \in 1..Len(splitlines(text)) |-> strip(splitlines(text)[i])],
              LAMBDA line : line # <<>>)

\* process_chunk, lines 371-378: the stripped lines that are not blank and
\* hold a quote and a delimiter
clean_lines(text) ==
    SelectSeq([i \in 1..Len(splitlines(text)) |-> strip(splitlines(text)[i])],
              LAMBDA line : line # <<>> /\ looks_like_row(line))

\* process_chunk, lines 362-383: the text returned for a response
cleanup(text_resp) ==
    LET text == unfence(text_resp)
    IN IF clean_lines(text) # <<>> THEN join(clean_lines(text), NL) ELSE text

\* the lines a model writes: commentary, a row with tab and with pipe, an
\* opening and a closing fence, a blank line, a quoted phrase without
\* delimiter, commentary with a comma, and a one-field row with a
\* trailing tab
LineInputs ==
    {<<Letter, SP, Letter>>,
     <<Q, Letter, Q, TAB, Q, Letter, Q>>,
     <<Q, Letter, Q, PIPE, Q, Letter, Q>>,
     <<FENCE, LANG>>,
     <<FENCE>>,
     <<>>,
     <<Q, Letter, Q>>,
     <<Letter, COMMA, SP, Letter>>,
     <<SP, Q, Letter, Q, TAB>>}

\* the responses of at most MaxLines lines
ResponseInputs ==
    {join(lines, NL) : lines \in UNION {[1..n -> LineInputs] : n \in 0..MaxLines}}

\* a response has arrived and is not cleaned up yet
NormalizeInit ==
    /\ DispatcherInit
    /\ StoreInit
    /\ embedding = [op |-> None]
    /\ gen = [pc |-> "idle"]
    /\ auth = [op |-> None]
    /\ \E text_resp \in ResponseInputs : io = [op |-> None, text_resp |-> text_resp]

\* the cleanup of process_chunk runs on the response
Cleanup ==
    /\ io.op = None
    /\ io' = [op |-> "cleanup", text_resp |-> io.text_resp, ret |-> cleanup(io.text_resp)]
    /\ UNCHANGED <<dvars, svars, embedding, gen, auth>>

NormalizeNext == Cleanup

NormalizeSpec == NormalizeInit /\ [][NormalizeNext]_vars

----------------------------------------------------------------------------
(* Tabular parser: robust_csv_parse *)

\* the most lines a text handed to the parser has
MaxParseLines == 3

\* str.split(sep): the parts between the separators
RECURSIVE split(_, _)
split(text, sep) ==
    LET i == find(text, {sep}, 1)
    IN IF i = 0 THEN <<text>>
       ELSE <<SubSeq(text, 1, i - 1)>> \o split(SubSeq(text, i + 1, Len(text)), sep)

\* str.replace('""', '"'): every pair of quotes, from the left, becomes one
RECURSIVE replace_doubled(_)
replace_doubled(text) ==
    IF Len(text) < 2 THEN text
    ELSE IF text[1] = Q /\ text[2] = Q
         THEN <<Q>> \o replace_doubled(SubSeq(text, 3, Len(text)))
         ELSE <<text[1]>> \o replace_doubled(Tail(text))

\* robust_csv_parse, lines 198-201: a field that starts and ends with a
\* quote loses them and has its doubled quotes replaced
unquote(field) ==
    IF field # <<>> /\ Head(field) = Q /\ field[Len(field)] = Q
    THEN replace_doubled(SubSeq(field, 2, Len(field) - 1))
    ELSE field

\* robust_csv_parse, lines 179-191: the parts of a stripped line, split at
\* the tab, else at the pipe, else at the comma; nothing without delimiter
parts_of(line) ==
    IF Contains(line, <<TAB>>) THEN split(line, TAB)
    ELSE IF Contains(line, <<PIPE>>) THEN split(line, PIPE)
    ELSE IF Contains(line, <<COMMA>>) THEN split(line, COMMA)
    ELSE <<>>

\* robust_csv_parse, the body of the line loop: the rows a line gives
parse_line(raw_line) ==
    LET line == strip(raw_line)
        parts == parts_of(line)
        front == unquote(strip(parts[1]))
        back == unquote(strip(parts[2]))
        extra == join(SubSeq(parts, 3, Len(parts)), TAB)
    IN IF line = <<>> \/ Len(parts) < 2 THEN <<>>
       ELSE IF Len(parts) > 2
            THEN <<[Front |-> front, Back |-> unquote(strip(back \o <<SP>> \o extra))]>>
            ELSE <<[Front |-> front, Back |-> back]>>

\* robust_csv_parse(csv_text): the rows of the data frame
RECURSIVE parse_lines(_)
parse_lines(lines) ==
    IF lines = <<>> THEN <<>>
    ELSE parse_line(Head(lines)) \o parse_lines(Tail(lines))
robust_csv_parse(csv_text) == parse_lines(splitlines(strip(csv_text)))

\* a field as the contract writes it: in double quotes, every quote doubled
RECURSIVE doubled(_)
doubled(field) ==
    IF field = <<>> THEN <<>>
    ELSE (IF Head(field) = Q THEN <<Q, Q>> ELSE <<Head(field)>>) \o doubled(Tail(field))
quoted(field) == <<Q>> \o doubled(field) \o <<Q>>

\* the line of a record: two quoted fields with a tab between them
write_row(row) == quoted(row.Front) \o <<TAB>> \o quoted(row.Back)

\* fields without tab and newline: a word, nothing, a quote, a quoted word,
\* blanks around a word, a comma, a pipe, and a form feed inside
FieldInputs ==
    {<<Letter>>, <<>>, <<Q>>, <<Q, Letter, Q>>, <<SP, Letter, SP>>,
     <<Letter, COMMA, Letter>>, <<Letter, PIPE, Letter>>, <<Letter, FF, Letter>>}

\* the records written into a text
RecordInputs ==
    {[Front |-> <<Letter>>, Back |-> f] : f \in FieldInputs}
    \cup {[Front |-> f, Back |-> <<Letter, Letter>>] : f \in FieldInputs}

\* lines that are no record of the contract: commentary, a single quoted
\* field, a field followed by a tab, commentary with a comma, and a
\* record written with a pipe
MalformedInputs ==
    {<<Letter, SP, Letter>>,
     <<Q, Letter, Q>>,
     <<Q, Letter, Q, TAB>>,
     <<Letter, COMMA, SP, Letter>>,
     <<Q, Letter, Q, PIPE, Q, Letter, Q>>}

\* the lines of a text: records and malformed lines
SourceInputs ==
    {[record |-> TRUE, row |-> r, line |-> write_row(r)] : r \in RecordInputs}
    \cup {[record |-> FALSE, row |-> [Front |-> <<>>, Back |-> <<>>], line |-> l] :
             l \in MalformedInputs}

\* a text of at most MaxParseLines lines is about to be parsed
ParseInit ==
    /\ DispatcherInit
    /\ StoreInit
    /\ embedding = [op |-> None]
    /\ gen = [pc |-> "idle"]
    /\ auth = [op |-> None]
    /\ \E n \in 0..MaxParseLines : \E sources \in [1..n -> SourceInputs] :
          io = [op |-> None, sources |-> sources]

\* robust_csv_parse runs on the text of the lines
Parse ==
    /\ io.op = None
    /\ io' = [op |-> "robust_csv_parse", sources |-> io.sources,
              ret |-> robust_csv_parse(
                         join([i \in 1..Len(io.sources) |-> io.sources[i].line], NL))]
    /\ UNCHANGED <<dvars, svars, embedding, gen, auth>>

ParseNext == Parse

ParseSpec == ParseInit /\ [][ParseNext]_vars

----------------------------------------------------------------------------
(* Card generation: the batch loop of render_generator *)

\* the most chunks the chapters of a document have together
MaxChunks == 3

\* a capital letter, and the word every error value of process_chunk
\* starts with
Capital == "A"
ErrorWord == "Error"

\* str.lower()
lower(text) == [i \in 1..Len(text) |-> IF text[i] = Capital THEN Letter ELSE text[i]]

\* str.startswith(prefix)
startswith(text, prefix) ==
    Len(text) >= Len(prefix) /\ SubSeq(text, 1, Len(prefix)) = prefix

\* what the dispatcher hands to process_chunk for a chunk: a response
\* text, a response without text, or the exception of an exhausted
\* cascade
TextOutcome(text) == [kind |-> "text", text |-> text]
NoTextOutcome == [kind |-> "none", text |-> <<>>]
RaiseOutcome == [kind |-> "raise", text |-> <<>>]

\* a variant of process_chunk without its try/except: the exception of the
\* dispatcher, or of `text_resp.strip()` on a missing text, leaves it
process_chunk_no_except(generated) ==
    IF generated.kind = "raise" THEN Raised("Exception")
    ELSE IF generated.kind = "none" THEN Raised("AttributeError")
    ELSE Returned(cleanup(generated.text))

\* process_chunk, lines 347-385: the cleaned response, or for every
\* exception raised inside the try the text "Error processing chunk: ..."
process_chunk(generated) ==
    IF generated.kind = "text" THEN Returned(cleanup(generated.text))
    ELSE Returned(<<ErrorWord, SP, Letter>>)

\* deduplicate_cards: the rows whose front, lower-cased and stripped, is
\* neither among the existing questions nor the front of an earlier row
RECURSIVE unique_rows(_, _)
unique_rows(rows, existing_set) ==
    IF rows = <<>> THEN <<>>
    ELSE LET front == lower(strip(Head(rows).Front))
         IN IF front \in existing_set
            THEN unique_rows(Tail(rows), existing_set)
            ELSE <<Head(rows)>> \o unique_rows(Tail(rows), existing_set \cup {front})
deduplicate_cards(new_cards, existing_questions) ==
    IF new_cards = <<>> \/ existing_questions = <<>> THEN new_cards
    ELSE unique_rows(new_cards,
                     {lower(strip(existing_questions[i])) : i \in 1..Len(existing_questions)})

\* the responses to a chunk: two rows; inside a fence, a row whose front is
\* that of the first in capitals, the same front in small letters and a
\* new row; and commentary
RowsResponse ==
    join(<<write_row([Front |-> <<Letter>>, Back |-> <<Letter, Letter>>]),
           write_row([Front |-> <<Letter, Letter>>, Back |-> <<Letter>>])>>, NL)
RepeatResponse ==
    join(<<<<FENCE, LANG>>,
           write_row([Front |-> <<Capital>>, Back |-> <<Letter>>]),
           write_row([Front |-> <<Letter>>, Back |-> <<Capital>>]),
           write_row([Front |-> <<Capital, Capital, Capital>>, Back |-> <<Letter>>]),
           <<FENCE>>>>, NL)
CommentaryResponse == <<Letter, SP, Letter>>
ChunkOutcomes ==
    {TextOutcome(RowsResponse), TextOutcome(RepeatResponse),
     TextOutcome(CommentaryResponse), NoTextOutcome, RaiseOutcome}

\* the chapters of a document: the chunks of the first chapter and those
\* of the second, each chunk with the outcome its generation will have
ChapterInputs ==
    UNION {UNION {{<<SubSeq(work, 1, k), SubSeq(work, k + 1, n)>> : k \in 0..n} :
                    work \in [1..n -> ChunkOutcomes]} : n \in 0..MaxChunks}

\* a data frame: its rows, and whether it has the columns Front and Back
\* (pd.DataFrame([]) has no column)
DataFrame(rows) == [columns |-> rows # <<>>, rows |-> rows]

\* the positions (chapter, chunk) of the nested loop, in its order
Positions(chapters_data) ==
    LET of(ch) == [ck \in 1..Len(chapters_data[ch]) |-> <<ch, ck>>]
    IN of(1) \o of(2)

\* pd.concat(all_dfs): the rows of all frames
RECURSIVE concat(_)
concat(all_dfs) ==
    IF all_dfs = <<>> THEN <<>> ELSE Head(all_dfs).rows \o concat(Tail(all_dfs))

\* a document is loaded, its chapters are shown and nothing is generated
BatchInit ==
    /\ DispatcherInit
    /\ StoreInit
    /\ embedding = [op |-> None]
    /\ io = [op |-> None]
    /\ auth = [op |-> None]
    /\ \E chapters_data \in ChapterInputs :
          gen = [pc |-> "idle", chapters_data |-> chapters_data, i |-> 0,
                 generated_questions |-> <<>>, all_dfs |-> <<>>, csv_chunks |-> <<>>,
                 result_df |-> <<>>, message |-> None]

\* the button "Generate All Anki Cards": lines 163-171
GenerateAll ==
    /\ gen.pc = "idle"
    /\ gen' = [gen EXCEPT !.pc = "loop", !.i = 1]
    /\ UNCHANGED <<dvars, svars, embedding, io, auth>>

\* one pass of the inner loop, lines 181-231: the chunk is generated; the
\* rows of a value that is no error value are parsed, deduplicated,
\* remembered as questions, given their deck and appended; an exception
\* leaving process_chunk ends the loop at the outer except of line 245
ProcessChunk ==
    /\ gen.pc = "loop"
    /\ gen.i <= Len(Positions(gen.chapters_data))
    /\ LET pos == Positions(gen.chapters_data)[gen.i]
           csv_chunk == process_chunk(gen.chapters_data[pos[1]][pos[2]])
           parsed == robust_csv_parse(csv_chunk.value)
           df_chunk == IF parsed # <<>>
                       THEN [DataFrame(parsed) EXCEPT
                               !.rows = deduplicate_cards(parsed, gen.generated_questions)]
                       ELSE DataFrame(parsed)
           new_questions == [j \in 1..Len(df_chunk.rows) |-> df_chunk.rows[j].Front]
           with_deck == [df_chunk EXCEPT
                           !.rows = [j \in 1..Len(df_chunk.rows) |->
                                       [Front |-> df_chunk.rows[j].Front,
                                        Back |-> df_chunk.rows[j].Back,
                                        Deck |-> pos[1]]]]
       IN IF csv_chunk.raised # None
          THEN gen' = [gen EXCEPT !.pc = "done", !.message = "Error"]
          ELSE IF csv_chunk.value # <<>> /\ ~startswith(csv_chunk.value, <<ErrorWord>>)
          THEN gen' = [gen EXCEPT
                         !.i = @ + 1,
                         !.csv_chunks = Append(@, csv_chunk.value),
                         !.generated_questions = @ \o new_questions,
                         !.all_dfs = Append(@, with_deck)]
          ELSE gen' = [gen EXCEPT !.i = @ + 1, !.csv_chunks = Append(@, csv_chunk.value)]
    /\ UNCHANGED <<dvars, svars, embedding, io, auth>>

\* after the loop, lines 233-244: the frames are concatenated into the
\* result; without a frame nothing is stored, and frames that all lack
\* the columns Front and Back raise KeyError into the outer except
Finish ==
    /\ gen.pc = "loop"
    /\ gen.i > Len(Positions(gen.chapters_data))
    /\ IF gen.all_dfs = <<>>
       THEN gen' = [gen EXCEPT !.pc = "done", !.message = "No cards generated"]
       ELSE IF \A j \in 1..Len(gen.all_dfs) : ~gen.all_dfs[j].columns
       THEN gen' = [gen EXCEPT !.pc = "done", !.message = "Error"]
       ELSE gen' = [gen EXCEPT !.pc = "done", !.message = "Generated",
                               !.result_df = concat(gen.all_dfs)]
    /\ UNCHANGED <<dvars, svars, embedding, io, auth>>

BatchNext ==
    \/ GenerateAll
    \/ ProcessChunk
    \/ Finish

BatchSpec == BatchInit /\ [][BatchNext]_vars

----------------------------------------------------------------------------
(* User manager: register and login of utils/auth.py *)

\* the most attempts of one kind the rate limiter holds at a time
MaxRecorded == 5

\* the rate limit and the shortest password
MAX_ATTEMPTS == 5
MIN_PASSWORD_LENGTH == 8

\* a password: its text, its length and the classes of characters in it
Password(text, len, upper, lower_, digit) ==
    [text |-> text, len |-> len, upper |-> upper, lower |-> lower_, digit |-> digit]

\* the password of the tests, a password with a capital, the wrong
\* password of the tests, the password of the legacy user and a short one
password123 == Password("password123", 11, FALSE, TRUE, TRUE)
Password123 == Password("Password123", 11, TRUE, TRUE, TRUE)
wrongpassword == Password("wrongpassword", 13, FALSE, TRUE, FALSE)
legacypassword == Password("legacypassword", 14, FALSE, TRUE, FALSE)
Pw1 == Password("Pw1", 3, TRUE, TRUE, TRUE)
PasswordInputs == {password123, Password123, wrongpassword, legacypassword, Pw1}

\* the address of the tests
Email == "test@example.com"

\* bcrypt.hashpw and hashlib.sha256(...).hexdigest(): the scheme and the
\* password hashed; the plain text kept in a record has no scheme
bcrypt_hash(password) == [scheme |-> "bcrypt", of |-> password.text]
sha256_hash(password) == [scheme |-> "sha256", of |-> password.text]
plain(password) == [scheme |-> None, of |-> password.text]

\* no record for the address, and the record register writes
NoUser == [password_hash |-> [scheme |-> None, of |-> None], registered |-> FALSE]
User(password_hash) == [password_hash |-> password_hash, registered |-> TRUE]

\* a variant of _hash_password that keeps the legacy scheme
_hash_password_sha256(password) == sha256_hash(password)

\* _hash_password
_hash_password(password) == bcrypt_hash(password)

\* a variant of _verify_password that accepts every password
_verify_password_any(stored_hash, password) ==
    [is_valid |-> TRUE, is_legacy |-> stored_hash.scheme = "sha256"]

\* _verify_password: a hash of 64 hexadecimal digits is compared with the
\* SHA-256 of the password, any other hash is checked by bcrypt, which
\* raises ValueError, caught, for a text that is no bcrypt hash
_verify_password(stored_hash, password) ==
    IF stored_hash.scheme = "sha256"
    THEN [is_valid |-> stored_hash = sha256_hash(password), is_legacy |-> TRUE]
    ELSE IF stored_hash.scheme = "bcrypt"
    THEN [is_valid |-> stored_hash.of = password.text, is_legacy |-> FALSE]
    ELSE [is_valid |-> FALSE, is_legacy |-> FALSE]

\* _validate_password_strength
_validate_password_strength(password) ==
    IF password.len < MIN_PASSWORD_LENGTH THEN "Password must be at least 8 characters long."
    ELSE IF ~password.upper THEN "Password must contain at least one uppercase letter."
    ELSE IF ~password.lower THEN "Password must contain at least one lowercase letter."
    ELSE IF ~password.digit THEN "Password must contain at least one digit."
    ELSE None

\* RateLimiter.is_rate_limited, asked right after record_attempt
is_rate_limited(attempts) == attempts >= MAX_ATTEMPTS

\* RateLimiter.get_remaining_attempts
get_remaining_attempts(attempts) ==
    IF MAX_ATTEMPTS - attempts > 0 THEN MAX_ATTEMPTS - attempts ELSE 0

\* the record of a call of the user manager
AuthCall(op, password, before, attempts, success, message) ==
    [op |-> op, email |-> Email, password |-> password, before |-> before,
     attempts |-> attempts, success |-> success, message |-> message]

\* a user manager was built on a file that holds no user, or the legacy
\* user of the tests
AuthInit ==
    /\ DispatcherInit
    /\ StoreInit
    /\ embedding = [op |-> None]
    /\ io = [op |-> None]
    /\ gen = [pc |-> "idle"]
    /\ \E user \in {NoUser, User(sha256_hash(legacypassword))} :
          auth = [op |-> None, user |-> user, register |-> 0, login |-> 0,
                  call |-> [op |-> None]]

\* register(email, password): the attempt is recorded first; a limited
\* call, a weak password and a registered address are refused; else the
\* record with the bcrypt hash is saved
Register ==
    /\ auth.register < MaxRecorded
    /\ \E password \in PasswordInputs :
          LET attempts == auth.register + 1
              error_msg == _validate_password_strength(password)
              ret(success, message) ==
                  AuthCall("register", password, auth.user, attempts, success, message)
          IN IF is_rate_limited(attempts)
             THEN auth' = [auth EXCEPT !.register = attempts,
                             !.call = ret(FALSE, "Too many registration attempts.")]
             ELSE IF error_msg # None
             THEN auth' = [auth EXCEPT !.register = attempts, !.call = ret(FALSE, error_msg)]
             ELSE IF auth.user.registered
             THEN auth' = [auth EXCEPT !.register = attempts,
                             !.call = ret(FALSE, "User already exists.")]
             ELSE auth' = [auth EXCEPT !.register = attempts,
                             !.user = User(_hash_password(password)),
                             !.call = ret(TRUE, "User registered successfully.")]
    /\ UNCHANGED <<dvars, svars, embedding, io, gen>>

\* login(email, password): the attempt is recorded first; a limited call,
\* an unknown address and a password that does not verify are refused; a
\* legacy hash that verifies is replaced by a bcrypt hash
Login ==
    /\ auth.login < MaxRecorded
    /\ \E password \in PasswordInputs :
          LET attempts == auth.login + 1
              verified == _verify_password(auth.user.password_hash, password)
              ret(success, message) ==
                  AuthCall("login", password, auth.user, attempts, success, message)
          IN IF is_rate_limited(attempts)
             THEN auth' = [auth EXCEPT !.login = attempts,
                             !.call = ret(FALSE, "Too many login attempts.")]
             ELSE IF ~auth.user.registered
             THEN auth' = [auth EXCEPT !.login = attempts, !.call = ret(FALSE, "User not found.")]
             ELSE IF verified.is_valid
             THEN auth' = [auth EXCEPT !.login = attempts,
                             !.user = IF verified.is_legacy
                                      THEN User(_hash_password(password)) ELSE @,
                             !.call = ret(TRUE, Email)]
             ELSE auth' = [auth EXCEPT !.login = attempts, !.call = ret(FALSE, "Invalid password.")]
    /\ UNCHANGED <<dvars, svars, embedding, io, gen>>

\* RateLimiter._cleanup_old_attempts: the oldest attempt of one kind is
\* older than the window and is forgotten
WindowPasses ==
    /\ \/ auth.register > 0 /\ auth' = [auth EXCEPT !.register = @ - 1]
       \/ auth.login > 0 /\ auth' = [auth EXCEPT !.login = @ - 1]
    /\ UNCHANGED <<dvars, svars, embedding, io, gen>>

AuthNext ==
    \/ Register
    \/ Login
    \/ WindowPasses

AuthSpec == AuthInit /\ [][AuthNext]_vars

----------------------------------------------------------------------------
(* User manager: the API keys of a user, encrypted at rest *)

\* the most calls of save_keys and get_keys in a run
MaxKeyCalls == 3

Providers == {"google", "openrouter"}

\* the values of a key: the empty text, a text (with or without the
\* marker 'enc:' at its start) and the marker followed by the Fernet token
\* of a value
EmptyValue == [kind |-> "empty"]
KeyText(text, marked) == [kind |-> "text", text |-> text, marked |-> marked]
Token(value) == [kind |-> "token", of |-> value]

\* KeyEncryption.is_encrypted: the value starts with 'enc:'
is_encrypted(value) ==
    \/ value.kind = "token"
    \/ value.kind = "text" /\ value.marked

\* a variant of encrypt that returns the text as it is
encrypt_plain(plaintext) == plaintext

\* KeyEncryption.encrypt: the empty text is returned as it is, any other
\* text becomes 'enc:' and its Fernet token
encrypt(plaintext) ==
    IF plaintext.kind = "empty" THEN plaintext ELSE Token(plaintext)

\* KeyEncryption.decrypt: the empty text and a text without the marker
\* are returned as they are; the token after the marker is decrypted, and
\* a text after the marker that is no token (InvalidToken) gives ""
decrypt(ciphertext) ==
    IF ciphertext.kind = "empty" THEN ciphertext
    ELSE IF ~is_encrypted(ciphertext) THEN ciphertext
    ELSE IF ciphertext.kind = "token" THEN ciphertext.of
    ELSE EmptyValue

\* dict.update
update(current, other) ==
    [k \in DOMAIN current \cup DOMAIN other |->
        IF k \in DOMAIN other THEN other[k] ELSE current[k]]

\* the loop of save_keys and of the migration in get_keys: a value that
\* is not empty and does not start with the marker is encrypted
encrypted_keys(keys) ==
    [provider_ \in DOMAIN keys |->
        IF keys[provider_].kind # "empty" /\ ~is_encrypted(keys[provider_])
        THEN encrypt(keys[provider_]) ELSE keys[provider_]]

\* the first loop of get_keys
decrypted_keys(stored_keys) ==
    [provider_ \in DOMAIN stored_keys |->
        IF stored_keys[provider_].kind # "empty"
        THEN IF is_encrypted(stored_keys[provider_])
             THEN decrypt(stored_keys[provider_]) ELSE stored_keys[provider_]
        ELSE stored_keys[provider_]]

\* get_keys found a plain text among the stored values
needs_migration(stored_keys) ==
    \E provider_ \in DOMAIN stored_keys :
        stored_keys[provider_].kind # "empty" /\ ~is_encrypted(stored_keys[provider_])

\* the key values a caller passes: nothing, two keys, a key that starts
\* with 'enc:' and a value that save_keys stored before
KeyValueInputs ==
    {EmptyValue, KeyText("AIza-key", FALSE), KeyText("sk-or-key", FALSE),
     KeyText("enc:key", TRUE), Token(KeyText("AIza-key", FALSE))}

\* the dictionaries a caller passes
KeysInputs == UNION {[ps -> KeyValueInputs] : ps \in SUBSET Providers}

\* the file holds no user, a user without keys, or a user whose key was
\* stored as plain text by an earlier version
KeysInit ==
    /\ DispatcherInit
    /\ StoreInit
    /\ embedding = [op |-> None]
    /\ io = [op |-> None]
    /\ gen = [pc |-> "idle"]
    /\ \E registered \in BOOLEAN :
       \E api_keys \in {<<>>} \cup
                       {[provider_ \in {"google"} |-> KeyText("AIza-key", FALSE)]} :
          /\ ~registered => api_keys = <<>>
          /\ auth = [op |-> None, registered |-> registered, api_keys |-> api_keys,
                     ncalls |-> 0, call |-> [op |-> None]]

\* save_keys(email, keys)
SaveKeys ==
    /\ auth.ncalls < MaxKeyCalls
    /\ \E keys \in KeysInputs :
          IF ~auth.registered
          THEN auth' = [auth EXCEPT !.ncalls = @ + 1,
                          !.call = [op |-> "save_keys", keys |-> keys,
                                    before |-> auth.api_keys, success |-> FALSE]]
          ELSE auth' = [auth EXCEPT !.ncalls = @ + 1,
                          !.api_keys = update(@, encrypted_keys(keys)),
                          !.call = [op |-> "save_keys", keys |-> keys,
                                    before |-> auth.api_keys, success |-> TRUE]]
    /\ UNCHANGED <<dvars, svars, embedding, io, gen>>

\* get_keys(email): the stored values decrypted; stored plain texts are
\* encrypted and written back
GetKeys ==
    /\ auth.ncalls < MaxKeyCalls
    /\ IF ~auth.registered
       THEN auth' = [auth EXCEPT !.ncalls = @ + 1,
                       !.call = [op |-> "get_keys", before |-> auth.api_keys,
                                 ret |-> <<>>, saved |-> auth.call]]
       ELSE auth' = [auth EXCEPT !.ncalls = @ + 1,
                       !.api_keys = IF needs_migration(@) THEN encrypted_keys(@) ELSE @,
                       !.call = [op |-> "get_keys", before |-> auth.api_keys,
                                 ret |-> decrypted_keys(auth.api_keys),
                                 saved |-> auth.call]]
    /\ UNCHANGED <<dvars, svars, embedding, io, gen>>

KeysNext ==
    \/ SaveKeys
    \/ GetKeys

KeysSpec == KeysInit /\ [][KeysNext]_vars

----------------------------------------------------------------------------
(* User manager: session tokens *)

\* the most tokens issued in a run and the last instant of the clock
MaxTokens == 2
MaxTime == 3

\* the life of a session (30 days), in instants of the clock
SESSION_LIFETIME == 2

\* the addresses of two users
Emails == {"a@example.com", "b@example.com"}

\* del d[k]
Remove(d, k) == [x \in DOMAIN d \ {k} |-> d[x]]

\* create_session(email) at the instant now, token being the random token
\* drawn: the token is stored with its expiry and the user's expired
\* sessions are dropped; none says that None was returned
create_session(data, now, email, token) ==
    IF email \notin DOMAIN data THEN [none |-> TRUE, ret |-> 0, data |-> data]
    ELSE LET expiry == now + SESSION_LIFETIME
             sessions == update(data[email], [t \in {token} |-> expiry])
             active_sessions ==
                 [t \in {x \in DOMAIN sessions : sessions[x] > now} |-> sessions[t]]
         IN [none |-> FALSE, ret |-> token,
             data |-> [data EXCEPT ![email] = active_sessions]]

\* validate_session(email, token) at the instant now: an expired token is
\* removed
validate_session(data, now, email, token) ==
    IF email \notin DOMAIN data THEN [ret |-> FALSE, data |-> data]
    ELSE IF token \notin DOMAIN data[email] THEN [ret |-> FALSE, data |-> data]
    ELSE IF now > data[email][token]
    THEN [ret |-> FALSE, data |-> [data EXCEPT ![email] = Remove(@, token)]]
    ELSE [ret |-> TRUE, data |-> data]

\* a variant of invalidate_session that leaves the token in place
invalidate_session_keep(data, email, token) == data

\* invalidate_session(email, token)
invalidate_session(data, email, token) ==
    IF email \notin DOMAIN data THEN data
    ELSE IF token \in DOMAIN data[email]
    THEN [data EXCEPT ![email] = Remove(@, token)]
    ELSE data

\* the file holds one or both users, without sessions; issued remembers
\* the tokens handed out, ended the ones of them that were invalidated or
\* found expired
SessionInit ==
    /\ DispatcherInit
    /\ StoreInit
    /\ embedding = [op |-> None]
    /\ io = [op |-> None]
    /\ gen = [pc |-> "idle"]
    /\ \E registered \in {{"a@example.com"}, Emails} :
          auth = [op |-> None, data |-> [e \in registered |-> <<>>], now |-> 0,
                  tokens |-> 0, issued |-> {}, ended |-> {}, call |-> [op |-> None]]

\* the tokens a caller can present: the ones drawn so far and 0, a forged
\* token that is never drawn
TokenInputs == 0..auth.tokens

CreateSession ==
    /\ auth.tokens < MaxTokens
    /\ \E email \in Emails :
          LET token == auth.tokens + 1
              r == create_session(auth.data, auth.now, email, token)
          IN auth' = [auth EXCEPT
                 !.data = r.data,
                 !.tokens = token,
                 !.issued = IF r.none THEN @
                            ELSE @ \cup {[email |-> email, token |-> token,
                                          expiry |-> auth.now + SESSION_LIFETIME]},
                 !.call = [op |-> "create_session", email |-> email,
                           none |-> r.none, ret |-> r.ret]]
    /\ UNCHANGED <<dvars, svars, embedding, io, gen>>

ValidateSession ==
    /\ \E email \in Emails, token \in TokenInputs :
          LET r == validate_session(auth.data, auth.now, email, token)
          IN auth' = [auth EXCEPT
                 !.data = r.data,
                 !.ended = IF r.data # auth.data
                           THEN @ \cup {[email |-> email, token |-> token]} ELSE @,
                 !.call = [op |-> "validate_session", email |-> email,
                           token |-> token, ret |-> r.ret]]
    /\ UNCHANGED <<dvars, svars, embedding, io, gen>>

InvalidateSession ==
    /\ \E email \in Emails, token \in TokenInputs :
          auth' = [auth EXCEPT
              !.data = invalidate_session(@, email, token),
              !.ended = IF \E i \in auth.issued : i.email = email /\ i.token = token
                        THEN @ \cup {[email |-> email, token |-> token]} ELSE @,
              !.call = [op |-> "invalidate_session", email |-> email,
                        token |-> token, ret |-> None]]
    /\ UNCHANGED <<dvars, svars, embedding, io, gen>>

\* time.time() moves on, and the last call is no longer the latest event
Tick ==
    /\ auth.now < MaxTime
    /\ auth' = [auth EXCEPT !.now = @ + 1, !.call = [op |-> None]]
    /\ UNCHANGED <<dvars, svars, embedding, io, gen>>

SessionNext ==
    \/ CreateSession
    \/ ValidateSession
    \/ InvalidateSession
    \/ Tick

SessionSpec == SessionInit /\ [][SessionNext]_vars

----------------------------------------------------------------------------
(* User manager: password reset by a code sent by e-mail *)

\* the last instant of the clock
MaxResetTime == 3

\* the life of a reset code (600 seconds), in instants of the clock
RESET_LIFETIME == 1

\* the codes secrets.token_hex can draw, and a code it never drew
Codes == {"A1B2C3", "D4E5F6"}
CodeInputs == Codes \cup {"000000"}

\* a strong password the user does not have yet
NewPassword1 == Password("NewPassword1", 12, TRUE, TRUE, TRUE)
NewPasswordInputs == {NewPassword1, Password123, Pw1}

\* hashlib.sha256(code.encode()).hexdigest(), and no code stored
code_hash(code) == [scheme |-> "sha256", of |-> code]
NoCode == [scheme |-> None, of |-> None]

\* the record of a user with the fields of a reset; no record
ResetUser(password_hash, reset_code, reset_expiry) ==
    [registered |-> TRUE, password_hash |-> password_hash,
     reset_code |-> reset_code, reset_expiry |-> reset_expiry]
NoResetUser ==
    [registered |-> FALSE, password_hash |-> [scheme |-> None, of |-> None],
     reset_code |-> NoCode, reset_expiry |-> 0]

ResetNotice == "If this email is registered, a verification code will be sent."
InvalidCode == "Invalid or expired verification code."

\* initiate_password_reset(email) as attempt number attempts at the
\* instant now, code being the code drawn and sent the outcome of the mail
initiate_password_reset(user, attempts, now, code, sent) ==
    IF is_rate_limited(attempts)
    THEN [success |-> FALSE, message |-> "Too many reset attempts.", user |-> user]
    ELSE IF ~user.registered
    THEN [success |-> FALSE, message |-> ResetNotice, user |-> user]
    ELSE [success |-> sent, message |-> ResetNotice,
          user |-> [user EXCEPT !.reset_code = code_hash(code),
                                !.reset_expiry = now + RESET_LIFETIME]]

\* a variant of complete_password_reset that does not look at the expiry
complete_password_reset_late(user, attempts, now, code, new_password) ==
    IF is_rate_limited(attempts)
    THEN [success |-> FALSE, message |-> "Too many verification attempts.", user |-> user]
    ELSE IF _validate_password_strength(new_password) # None
    THEN [success |-> FALSE, message |-> _validate_password_strength(new_password),
          user |-> user]
    ELSE IF ~user.registered \/ user.reset_code = NoCode
            \/ user.reset_code # code_hash(code)
    THEN [success |-> FALSE, message |-> InvalidCode, user |-> user]
    ELSE [success |-> TRUE, message |-> "Password reset successfully.",
          user |-> ResetUser(_hash_password(new_password), NoCode, 0)]

\* complete_password_reset(email, code, new_password) as attempt number
\* attempts at the instant now
complete_password_reset(user, attempts, now, code, new_password) ==
    IF is_rate_limited(attempts)
    THEN [success |-> FALSE, message |-> "Too many verification attempts.", user |-> user]
    ELSE IF _validate_password_strength(new_password) # None
    THEN [success |-> FALSE, message |-> _validate_password_strength(new_password),
          user |-> user]
    ELSE IF ~user.registered
    THEN [success |-> FALSE, message |-> InvalidCode, user |-> user]
    ELSE IF user.reset_code = NoCode
    THEN [success |-> FALSE, message |-> InvalidCode, user |-> user]
    ELSE IF user.reset_code # code_hash(code)
    THEN [success |-> FALSE, message |-> InvalidCode, user |-> user]
    ELSE IF now > user.reset_expiry
    THEN [success |-> FALSE, message |-> InvalidCode,
          user |-> ResetUser(user.password_hash, NoCode, 0)]
    ELSE [success |-> TRUE, message |-> "Password reset successfully.",
          user |-> ResetUser(_hash_password(new_password), NoCode, 0)]

\* the same file with the address registered where it was not, and not
\* registered where it was
OtherWorld(user) ==
    IF user.registered THEN NoResetUser
    ELSE ResetUser(bcrypt_hash(Password123), NoCode, 0)

\* the file holds no user or a registered one; issued is the code that
\* the latest initiate_password_reset stored, with its expiry, and used
\* says that a reset with it succeeded
ResetInit ==
    /\ DispatcherInit
    /\ StoreInit
    /\ embedding = [op |-> None]
    /\ io = [op |-> None]
    /\ gen = [pc |-> "idle"]
    /\ \E user \in {NoResetUser, ResetUser(bcrypt_hash(Password123), NoCode, 0)} :
          auth = [op |-> None, user |-> user, now |-> 0, reset |-> 0, reset_verify |-> 0,
                  issued |-> [code |-> None, expiry |-> 0, used |-> FALSE],
                  call |-> [op |-> None]]

InitiatePasswordReset ==
    /\ auth.reset < MaxRecorded
    /\ \E code \in Codes, sent \in BOOLEAN :
          LET attempts == auth.reset + 1
              r == initiate_password_reset(auth.user, attempts, auth.now, code, sent)
              other == initiate_password_reset(OtherWorld(auth.user), attempts,
                                               auth.now, code, sent)
          IN auth' = [auth EXCEPT
                 !.reset = attempts,
                 !.user = r.user,
                 !.issued = IF r.user # auth.user
                            THEN [code |-> code, expiry |-> auth.now + RESET_LIFETIME,
                                  used |-> FALSE]
                            ELSE @,
                 !.call = [op |-> "initiate_password_reset", before |-> auth.user,
                           attempts |-> attempts, sent |-> sent,
                           success |-> r.success, message |-> r.message,
                           other |-> [success |-> other.success,
                                      message |-> other.message]]]
    /\ UNCHANGED <<dvars, svars, embedding, io, gen>>

CompletePasswordReset ==
    /\ auth.reset_verify < MaxRecorded
    /\ \E code \in CodeInputs, new_password \in NewPasswordInputs :
          LET attempts == auth.reset_verify + 1
              r == complete_password_reset(auth.user, attempts, auth.now, code,
                                           new_password)
          IN auth' = [auth EXCEPT
                 !.reset_verify = attempts,
                 !.user = r.user,
                 !.issued = IF r.success THEN [@ EXCEPT !.used = TRUE] ELSE @,
                 !.call = [op |-> "complete_password_reset", before |-> auth.user,
                           attempts |-> attempts, code |-> code,
                           new_password |-> new_password, at |-> auth.now,
                           issued |-> auth.issued,
                           success |-> r.success, message |-> r.message]]
    /\ UNCHANGED <<dvars, svars, embedding, io, gen>>

\* time.time() moves on by more than the window of the rate limiter,
\* which forgets the attempts
ResetTick ==
    /\ auth.now < MaxResetTime
    /\ auth' = [auth EXCEPT !.now = @ + 1, !.reset = 0, !.reset_verify = 0]
    /\ UNCHANGED <<dvars, svars, embedding, io, gen>>

ResetNext ==
    \/ InitiatePasswordReset
    \/ CompletePasswordReset
    \/ ResetTick

ResetSpec == ResetInit /\ [][ResetNext]_vars

----------------------------------------------------------------------------
(* User manager: two sessions of the application on the one user file *)

\* the sessions of the application, each with its own UserManager
AppSessions == {1, 2}

\* the user the file holds, and the addresses register is called with
KnownEmail == "a@example.com"
NewEmails == {"b@example.com", "c@example.com"}

\* the operations that change the file: register (of a new address) and,
\* for the known user, save_keys, create_session, save_preferences and
\* complete_password_reset
FileOps ==
    {[kind |-> "register", email |-> e] : e \in NewEmails} \cup
    {[kind |-> k, email |-> KnownEmail] :
        k \in {"save_keys", "create_session", "save_preferences",
               "complete_password_reset"}}

\* the file: its content (for every address the changes made to its
\* record) and whether an open(..., 'w') has emptied it and json.dump has
\* not written yet
UserFile(data, torn) == [data |-> data, torn |-> torn]

\* _load_data: the content of the file; {} when the file does not parse
_load_data(file) == IF file.torn THEN <<>> ELSE file.data

\* what the operation op of session s does to the data it loaded:
\* register refuses an address that is in the data, the other operations
\* refuse one that is not; otherwise the record is created or changed
Modify(data, op, s) ==
    IF op.kind = "register"
    THEN IF op.email \in DOMAIN data
         THEN [ok |-> FALSE, data |-> data]
         ELSE [ok |-> TRUE, data |-> update(data, [e \in {op.email} |-> {}])]
    ELSE IF op.email \notin DOMAIN data
         THEN [ok |-> FALSE, data |-> data]
         ELSE [ok |-> TRUE,
               data |-> [data EXCEPT ![op.email] = @ \cup {<<op.kind, s>>}]]

\* a session that is not in a call
IdleSession == [pc |-> "idle", op |-> [kind |-> None, email |-> None],
                data |-> <<>>, ok |-> FALSE]

FileInit ==
    /\ DispatcherInit
    /\ StoreInit
    /\ embedding = [op |-> None]
    /\ io = [op |-> None]
    /\ gen = [pc |-> "idle"]
    /\ auth = [op |-> None,
               file |-> UserFile([e \in {KnownEmail} |-> {}], FALSE),
               session |-> [s \in AppSessions |-> IdleSession]]

\* a session starts an operation: it loads the file and changes its copy,
\* or returns at once when the operation is refused
LoadData(s) ==
    /\ auth.session[s].pc = "idle"
    /\ \E op \in FileOps :
          LET r == Modify(_load_data(auth.file), op, s)
          IN auth' = [auth EXCEPT !.session[s] =
                        [pc |-> IF r.ok THEN "save" ELSE "done", op |-> op,
                         data |-> r.data, ok |-> r.ok]]
    /\ UNCHANGED <<dvars, svars, embedding, io, gen>>

\* _save_data, first half: open(self.data_file, 'w') empties the file
OpenForWrite(s) ==
    /\ auth.session[s].pc = "save"
    /\ auth' = [auth EXCEPT !.file = UserFile(<<>>, TRUE),
                            !.session[s].pc = "dump"]
    /\ UNCHANGED <<dvars, svars, embedding, io, gen>>

\* _save_data, second half: json.dump writes the session's copy
Dump(s) ==
    /\ auth.session[s].pc = "dump"
    /\ auth' = [auth EXCEPT !.file = UserFile(auth.session[s].data, FALSE),
                            !.session[s].pc = "done"]
    /\ UNCHANGED <<dvars, svars, embedding, io, gen>>

FileNext ==
    \/ \E s \in AppSessions : LoadData(s)
    \/ \E s \in AppSessions : OpenForWrite(s)
    \/ \E s \in AppSessions : Dump(s)

FileSpec == FileInit /\ [][FileNext]_vars

----------------------------------------------------------------------------
(* recursive_character_text_splitter of utils/pdf_processor.py *)

\* the longest text of the short inputs, the largest chunk size and the
\* largest overlap tried on them
MaxTextLen == 6
MaxChunkSize == 4
MaxOverlap == 2

\* the look-back window is a fifth of the chunk size, at most 1000
MAX_LOOKBACK == 1000
LOOKBACK_DIVISOR == 5

DOT == "."
SentenceEnders == {DOT, "!", "?"}

\* text[a:b]
slice(text, a, b) == SubSeq(text, a + 1, b)

\* the largest member of a set of numbers
SetMax(S) == CHOOSE x \in S : \A y \in S : y <= x

\* the end, within the window, of the last match of [.!?]\s, or -1
last_sentence_end(chunk_window) ==
    LET matches == {i \in 1..(Len(chunk_window) - 1) :
                       /\ chunk_window[i] \in SentenceEnders
                       /\ chunk_window[i + 1] \in Whitespace}
    IN IF matches = {} THEN -1 ELSE SetMax(matches) + 1

\* chunk_window.rfind(' ')
rfind_space(chunk_window) ==
    LET spaces == {i \in 1..Len(chunk_window) : chunk_window[i] = SP}
    IN IF spaces = {} THEN -1 ELSE SetMax(spaces) - 1

\* the cut point of the window that starts at start and ends at end
split_point(text, chunk_size, start, end) ==
    LET lookback == Min(MAX_LOOKBACK, chunk_size \div LOOKBACK_DIVISOR)
        search_start == Max(start, end - lookback)
        chunk_window == slice(text, search_start, end)
        found == IF last_sentence_end(chunk_window) # -1
                 THEN search_start + last_sentence_end(chunk_window)
                 ELSE IF rfind_space(chunk_window) # -1
                 THEN search_start + rfind_space(chunk_window) + 1
                 ELSE -1
    IN IF found = -1 \/ found <= start THEN end ELSE found

\* a variant of next_start that may stay where it is
next_start_stuck(cut, overlap, start) ==
    IF cut - overlap <= start THEN start ELSE cut - overlap

\* the start of the next chunk: back by the overlap, but at least one
\* character forward
next_start(cut, overlap, start) ==
    IF cut - overlap <= start THEN start + 1 ELSE cut - overlap

\* the while loop from the position start: the chunks as pairs of
\* positions; steps bounds the iterations, and done says that the loop
\* ended within them
RECURSIVE splitter_loop(_, _, _, _, _)
splitter_loop(text, chunk_size, overlap, start, steps) ==
    IF ~(start < Len(text)) THEN [spans |-> <<>>, done |-> TRUE]
    ELSE IF steps = 0 THEN [spans |-> <<>>, done |-> FALSE]
    ELSE LET end == Min(start + chunk_size, Len(text))
         IN IF end = Len(text)
            THEN [spans |-> <<[from |-> start, to |-> end]>>, done |-> TRUE]
            ELSE LET cut == split_point(text, chunk_size, start, end)
                     rest == splitter_loop(text, chunk_size, overlap,
                                           next_start(cut, overlap, start), steps - 1)
                 IN [spans |-> <<[from |-> start, to |-> cut]>> \o rest.spans,
                     done |-> rest.done]

\* recursive_character_text_splitter(text, chunk_size, overlap): the
\* chunks, their positions in the text, and whether the loop ended within
\* as many iterations as the text has characters
recursive_character_text_splitter(text, chunk_size, overlap) ==
    IF Len(text) <= chunk_size
    THEN [chunks |-> <<text>>, spans |-> <<[from |-> 0, to |-> Len(text)]>>,
          done |-> TRUE]
    ELSE LET r == splitter_loop(text, chunk_size, overlap, 0, Len(text))
         IN [chunks |-> [i \in 1..Len(r.spans) |->
                            slice(text, r.spans[i].from, r.spans[i].to)],
             spans |-> r.spans, done |-> r.done]

\* n times the character c
Repeat(c, n) == [i \in 1..n |-> c]

\* the texts: every text of letters, full stops and spaces up to
\* MaxTextLen; the 100 letters of the tests; and texts of 12 characters
\* whose window of two characters can hold the end of a sentence
SplitChars == {Letter, DOT, SP}
ShortTexts == UNION {[1..n -> SplitChars] : n \in 0..MaxTextLen}
LongTexts ==
    {Repeat(Letter, 8) \o w \o Repeat(Letter, 2) : w \in [1..2 -> SplitChars]}

\* the calls: the short texts with every small size and overlap, the
\* long ones with a size of 10 and an overlap of nothing, of 2 and of more
\* than the size, and the call of the tests
SplitInputs ==
    {[text |-> t, chunk_size |-> c, overlap |-> o] :
        t \in ShortTexts, c \in 1..MaxChunkSize, o \in 0..MaxOverlap} \cup
    {[text |-> t, chunk_size |-> 10, overlap |-> o] :
        t \in LongTexts, o \in {0, 2, 30}} \cup
    {[text |-> Repeat(Capital, 100), chunk_size |-> 30, overlap |-> 0]}

SplitInit ==
    /\ DispatcherInit
    /\ StoreInit
    /\ embedding = [op |-> None]
    /\ gen = [pc |-> "idle"]
    /\ auth = [op |-> None]
    /\ \E input \in SplitInputs :
          io = [op |-> None, text |-> input.text, chunk_size |-> input.chunk_size,
                overlap |-> input.overlap]

SplitText ==
    /\ io.op = None
    /\ LET r == recursive_character_text_splitter(io.text, io.chunk_size, io.overlap)
       IN io' = [op |-> "recursive_character_text_splitter", text |-> io.text,
                 chunk_size |-> io.chunk_size, overlap |-> io.overlap,
                 chunks |-> r.chunks, spans |-> r.spans, done |-> r.done]
    /\ UNCHANGED <<dvars, svars, embedding, gen, auth>>

SplitNext == SplitText

SplitSpec == SplitInit /\ [][SplitNext]_vars

----------------------------------------------------------------------------
(* add_chunks, the filter and the batch loop on lists of any content *)

\* the longest list of texts
MaxPairTexts == 4

\* the lists of texts: a short text and two long ones, in every order and
\* with repetitions
PairTexts == UNION {[1..n -> {apple, mitochondria, ribosomes}] : n \in 0..MaxPairTexts}

\* a metadata list that names the position of every text
IndexedList(n) == [i \in 1..n |-> SourceDict(ToString(i))]

\* the arguments of the call and the behaviour of its embedding calls
PairInputs ==
    UNION {UNION {{[texts |-> texts, metadata_list |-> metadata_list, oracle |-> oracle] :
                      oracle \in EmbeddingOracles(valid_indices(texts))} :
                  metadata_list \in {NoList, IndexedList(Len(texts))}} :
           texts \in PairTexts}

PairInit ==
    /\ DispatcherInit
    /\ StoreInit
    /\ embedding = [op |-> None]
    /\ gen = [pc |-> "idle"]
    /\ auth = [op |-> None]
    /\ \E input \in PairInputs :
          io = [op |-> None, texts |-> input.texts,
                metadata_list |-> input.metadata_list, oracle |-> input.oracle]

\* add_chunks from the filter to the end of the batch loop, on a store with
\* room for every text: the chunks appended to self.chunks
EmbedChunks ==
    /\ io.op = None
    /\ LET metadata_list == DefaultMetadata(io.metadata_list, Len(io.texts))
           valid == valid_indices(io.texts)
       IN io' = [io EXCEPT !.op = "add_chunks"] @@
                [metadata |-> metadata_list,
                 added |-> NewChunks(io.texts, metadata_list, valid, 1, io.oracle)]
    /\ UNCHANGED <<dvars, svars, embedding, gen, auth>>

PairNext == EmbedChunks

PairSpec == PairInit /\ [][PairNext]_vars

----------------------------------------------------------------------------
(* get_embedding *)

\* the return value None: the function falls off its end
ReturnedNone == [raised |-> None, value |-> <<>>, none |-> TRUE]

\* the google_client argument: None, or a configuration dictionary
NoConfig == {}
Config(cfg) == {cfg}

\* the providers get_embedding is called with, and what the remote
\* embedding call does
ProviderInputs == {"google", "openrouter", "zai"}
EmbedOutcomes == {OK, ERR_503, ERR_401}

\* a variant of get_embedding without the try/except around its body
get_embedding_no_except(text, provider_, google_client, remote) ==
    IF provider_ = "google"
    THEN IF google_client = NoConfig
            \/ (CHOOSE cfg \in google_client : TRUE).primary = NoClient
         THEN Returned(<<>>)
         ELSE IF remote = OK THEN Returned(EmbeddingOf(text))
              ELSE Raised(remote)
    ELSE IF provider_ = "openrouter" THEN Returned(<<>>)
    ELSE ReturnedNone

\* get_embedding(text, provider, google_client=...): `remote` is what
\* embed_content does when it is called; an exception is caught and printed
get_embedding(text, provider_, google_client, remote) ==
    IF provider_ = "google"
    THEN IF google_client = NoConfig
            \/ (CHOOSE cfg \in google_client : TRUE).primary = NoClient
         THEN Returned(<<>>)
         ELSE IF remote = OK THEN Returned(EmbeddingOf(text))
              ELSE Returned(<<>>)
    ELSE IF provider_ = "openrouter" THEN Returned(<<>>)
    ELSE ReturnedNone

\* a caller asks for the embedding of a text, passing the configuration the
\* sidebar built or none
GetEmbedding ==
    /\ pc \in {"idle", "configured"}
    /\ \E text \in TextInputs, provider_ \in ProviderInputs,
          google_client \in {NoConfig, Config(client_config)},
          remote \in EmbedOutcomes :
          embedding' = [op |-> "get_embedding", text |-> text,
                        provider |-> provider_, google_client |-> google_client,
                        remote |-> remote,
                        ret |-> get_embedding(text, provider_, google_client, remote)]
    /\ UNCHANGED <<dvars, svars, xvars>>

EmbeddingNext ==
    \/ ConfigureGemini
    \/ GetEmbedding

EmbeddingSpec == Init /\ [][EmbeddingNext]_vars

----------------------------------------------------------------------------
(* Derived quantities *)

\* the events of one kind
EventsOf(tr, kind) == SelectSeq(tr, LAMBDA e : e.ev = kind)

\* the remote attempts of pass n (the n-th invocation by the retry wrapper)
AttemptsOfPass(tr, n) == SelectSeq(tr, LAMBDA e : e.ev = "attempt" /\ e.n = n)

TypeOK ==
    /\ pc \in {"idle", "configured", "invoke", "primary", "fallback", "raised",
               "or_attempt", "done"}
    /\ attempt_number \in 0..STOP_AFTER_ATTEMPT
    /\ mi \in 0..Len(models_to_try)
    /\ fi \in 0..Len(client_config.fallbacks)

\* the remote attempts made so far, and those of the pass that is running
\* or that ran last
Attempts == EventsOf(trace, "attempt")
LastPassAttempts == AttemptsOfPass(trace, attempt_number)

\* the dispatcher has been called on a Google configuration
GoogleCalled == provider = "google" /\ pc \notin {"idle", "configured"}
OpenRouterCalled == provider = "openrouter" /\ pc \notin {"idle", "configured"}

\* the (credential, model) pairs of the cascade built for the call: DOMAIN outcome
SomePairSucceeds == \E p \in DOMAIN outcome : outcome[p] = OK

----------------------------------------------------------------------------
(* Claims *)

\* C1: when at least one (credential, model) pair of the constructed cascade
\* would succeed, _generate_with_retry returns a successful response.
C1_SuccessWhenSomePairSucceeds ==
    (GoogleCalled /\ pc = "done" /\ SomePairSucceeds) => result.kind = "Success"

\* C2: with a blank primary key and a valid fallback key, dispatch succeeds
\* through the first fallback credential on the first model of the cascade.
C2_BlankPrimaryUsesFallback ==
    (/\ GoogleCalled
     /\ pc = "done"
     /\ client_config.primary = NoClient
     /\ client_config.fallbacks # <<>>
     /\ outcome[<<client_config.fallbacks[1], model_name>>] = OK)
    => result = Success(model_name, client_config.fallbacks[1])

\* C3: a reported failure carries exactly one descriptor per attempt made,
\* in attempt order (same count, and the i-th descriptor is for the model and
\* the error of the i-th attempt).
C3_OneDescriptorPerAttempt ==
    (pc = "done" /\ result.kind = "Failure")
    => /\ Len(result.descriptors) = Len(LastPassAttempts)
       /\ \A i \in 1..Len(LastPassAttempts) :
             /\ result.descriptors[i].model = LastPassAttempts[i].model
             /\ result.descriptors[i].err =
                    outcome[<<LastPassAttempts[i].cred, LastPassAttempts[i].model>>]

\* the primary client's attempt at position i of the trace failed
PrimaryFailedAt(i) ==
    /\ GoogleCalled
    /\ trace[i].ev = "attempt"
    /\ trace[i].cred = client_config.primary
    /\ outcome[<<trace[i].cred, trace[i].model>>] # OK

\* the pass of the attempt at position i has left that attempt's model: it
\* is at a later model, or it ended with the raise after the model loop
MovedOn(i) ==
    \/ \E j \in (i + 1)..Len(trace) :
          /\ trace[j].n = trace[i].n
          /\ \/ trace[j].ev = "backoff"
             \/ trace[j].ev = "attempt" /\ trace[j].model # trace[i].model
    \/ /\ attempt_number = trace[i].n
       /\ \/ pc = "raised"
          \/ pc = "done" /\ result.kind = "Failure"
          \/ pc \in {"primary", "fallback"} /\ models_to_try[mi] # trace[i].model

\* the credentials attempted after position i on the same model in the same pass
CredsAfter(i) ==
    LET later == SelectSeq(SubSeq(trace, i + 1, Len(trace)),
                           LAMBDA e : /\ e.ev = "attempt"
                                      /\ e.n = trace[i].n
                                      /\ e.model = trace[i].model)
    IN  [k \in 1..Len(later) |-> later[k].cred]

\* the retryable class: quota (429, resource_exhausted), transient server error (503)
RetryableClass == {ERR_429, ERR_503}

\* C4 as stated: whenever the primary fails on a model, every fallback
\* credential is attempted on that model before the dispatcher moves on,
\* whatever the class of the primary's error.
C4_FallbacksAfterAnyPrimaryFailure ==
    \A i \in 1..Len(trace) :
        (PrimaryFailedAt(i) /\ MovedOn(i)) => CredsAfter(i) = client_config.fallbacks

\* C4 amended: when the primary fails on a model with an error of the
\* retryable class, the fallback credentials are attempted on that model, in
\* list order, before the dispatcher moves on; after a primary error of another
\* class no fallback credential is attempted on that model.
C4_FallbacksAfterRetryablePrimaryFailure ==
    \A i \in 1..Len(trace) :
        (PrimaryFailedAt(i) /\ MovedOn(i))
        => CredsAfter(i) =
              IF outcome[<<trace[i].cred, trace[i].model>>] \in RetryableClass
              THEN client_config.fallbacks
              ELSE <<>>

\* C4 witness: the primary failed on a model with a transient server error,
\* two different fallback credentials were then tried and the pass moved on
C4_Witness ==
    \E i \in 1..Len(trace) :
        /\ PrimaryFailedAt(i)
        /\ MovedOn(i)
        /\ outcome[<<trace[i].cred, trace[i].model>>] = ERR_503
        /\ Len(client_config.fallbacks) = 2
        /\ client_config.fallbacks[1] # client_config.fallbacks[2]
        /\ CredsAfter(i) = client_config.fallbacks

\* a client exists for the provider called, so that the model loop is entered
HasClient ==
    IF provider = "google" THEN client_config.primary # NoClient
    ELSE openrouter_client # NoClient

\* the pass that is running or that ran last has ended in an exception
PassFailed == pc = "raised" \/ (pc = "done" /\ result.kind = "Failure")

\* the models attempted in the pass that is running or that ran last, in order
ModelsAttempted == [i \in 1..Len(LastPassAttempts) |-> LastPassAttempts[i].model]

\* the errors after which _generate_with_openrouter goes to the next model:
\* the message contains 429, "rate limit" or 503
SwitchClass == {ERR_429, ERR_503, ERR_RATE}

\* C5 as stated: no dispatcher gives up in the middle of its cascade; a
\* failure is reported only after every model of the cascade has been attempted.
C5_FailureOnlyAfterWholeCascade ==
    (pc \notin {"idle", "configured"} /\ HasClient /\ PassFailed)
    => SeqToSet(ModelsAttempted) = SeqToSet(models_to_try)

\* C5 amended: _generate_with_retry never gives up in the middle of its
\* cascade: it raises only after every model has been attempted.
\* _generate_with_openrouter goes to the next model only after an error whose
\* message contains 429, "rate limit" or 503; at the first other error it
\* stops with a critical error and leaves the remaining models untried, and
\* it reports exhaustion only after every model has been attempted.
C5_FailureAfterCascadeOrCriticalError ==
    /\ (GoogleCalled /\ HasClient /\ PassFailed)
       => SeqToSet(ModelsAttempted) = SeqToSet(models_to_try)
    /\ (OpenRouterCalled /\ HasClient /\ PassFailed)
       => LET n == Len(LastPassAttempts)
              err(i) == outcome[<<LastPassAttempts[i].cred, LastPassAttempts[i].model>>]
          IN  /\ n >= 1
              /\ ModelsAttempted = SubSeq(models_to_try, 1, n)
              /\ \A i \in 1..(n - 1) : err(i) \in SwitchClass
              /\ IF err(n) \in SwitchClass
                 THEN n = Len(models_to_try) /\ result.msg = "All OpenRouter models failed"
                 ELSE result.msg = "OpenRouter Critical Error"

\* C5 witness: _generate_with_openrouter switched model after a quota error
\* and then stopped on an authorization error with models left untried
C5_Witness ==
    /\ OpenRouterCalled
    /\ pc = "done"
    /\ result.msg = "OpenRouter Critical Error"
    /\ Len(LastPassAttempts) = 2
    /\ Len(models_to_try) > 2
    /\ outcome[<<openrouter_client, models_to_try[2]>>] = ERR_401

\* the position of a model in the cascade
ModelIdx(m) == CHOOSE k \in 1..Len(models_to_try) : models_to_try[k] = m

\* the first position of the run of attempts on one model that holds position i
GroupStart(A, i) ==
    CHOOSE g \in 1..i :
        /\ \A k \in g..i : A[k].model = A[i].model
        /\ g = 1 \/ A[g - 1].model # A[i].model

\* C6: in every cascade pass of _generate_with_retry the attempts go through the
\* models in cascade order, without returning to an earlier model or skipping
\* one; on each model the primary credential is attempted first and then the
\* fallback credentials in their list order; nothing is attempted after the
\* first success.
C6_AttemptOrder ==
    GoogleCalled =>
      /\ \A n \in 1..attempt_number :
           LET A == AttemptsOfPass(trace, n)
           IN  /\ A # <<>> => A[1].model = models_to_try[1]
               /\ \A i \in 2..Len(A) :
                     ModelIdx(A[i].model) - ModelIdx(A[i - 1].model) \in {0, 1}
               /\ \A i \in 1..Len(A) :
                     LET g == GroupStart(A, i)
                     IN  IF i = g
                         THEN A[i].cred = client_config.primary
                         ELSE /\ i - g <= Len(client_config.fallbacks)
                              /\ A[i].cred = client_config.fallbacks[i - g]
      /\ \A i \in 1..(Len(trace) - 1) :
           trace[i].ev = "attempt" => outcome[<<trace[i].cred, trace[i].model>>] # OK

\* C6 witness: the pass went through the primary and two different fallback
\* credentials on the first model and succeeded with the second fallback
\* credential on the second model
C6_Witness ==
    /\ GoogleCalled
    /\ pc = "done"
    /\ result.kind = "Success"
    /\ Len(client_config.fallbacks) = 2
    /\ client_config.fallbacks[1] # client_config.fallbacks[2]
    /\ Len(models_to_try) >= 2
    /\ result.model = models_to_try[2]
    /\ result.cred = client_config.fallbacks[2]
    /\ Len(LastPassAttempts) = 6

\* the fallback list of the provider called
ProviderFallbackModels ==
    IF provider = "google" THEN GOOGLE_FALLBACK_MODELS ELSE OPENROUTER_FALLBACK_MODELS

\* C7: the cascade built for a request is the requested model followed by the
\* provider's fallback list without the requested model, it holds no model
\* twice, it is [requested model] alone when fallback_to_flash_lite is False,
\* and building it again from its own first element gives the same cascade.
C7_CascadeConstruction ==
    models_to_try # <<>> =>
      /\ models_to_try =
            IF provider = "google" /\ ~fallback_to_flash_lite
            THEN <<model_name>>
            ELSE <<model_name>>
                 \o SelectSeq(ProviderFallbackModels, LAMBDA x : x # model_name)
      /\ \A i, j \in 1..Len(models_to_try) :
            i # j => models_to_try[i] # models_to_try[j]
      /\ IF provider = "google"
         THEN GoogleCascade(models_to_try[1], fallback_to_flash_lite) = models_to_try
         ELSE OpenRouterCascade(models_to_try[1]) = models_to_try

\* C7 witness: the requested model is itself in the fallback list and the
\* cascade with model fallback has been built
C7_Witness ==
    /\ GoogleCalled
    /\ fallback_to_flash_lite
    /\ model_name \in SeqToSet(GOOGLE_FALLBACK_MODELS)
    /\ models_to_try # <<>>
    /\ models_to_try[1] = model_name
    /\ Len(models_to_try) = Len(GOOGLE_FALLBACK_MODELS)

\* C8: the pacing delay selected for a model, rate_limit_delay(m), is applied
\* before the first generation attempt on m in a cascade pass, also for the
\* fallback models.
C8_PacedBeforeAttempt ==
    \A i \in 1..Len(trace) :
        trace[i].ev = "attempt"
        => \E j \in 1..(i - 1) :
              /\ trace[j].ev = "pace"
              /\ trace[j].n = trace[i].n
              /\ trace[j].model = trace[i].model
              /\ trace[j].delay = rate_limit_delay(trace[i].model)

\* the size of a Google request: models of its cascade, fallback credentials
CascadeSize == Len(GoogleCascade(model_name, fallback_to_flash_lite))
FallbackCount == Len(client_config.fallbacks)

\* an upper bound on the steps the wrapped dispatch can still take:
\* the passes left, and the rest of the running pass
Rank ==
    LET perPass == CascadeSize * (1 + FallbackCount) + 2
        rest == CASE pc = "invoke" -> perPass
                  [] pc = "primary" ->
                        (CascadeSize - mi + 1) * (1 + FallbackCount) + 1
                  [] pc = "fallback" ->
                        (CascadeSize - mi) * (1 + FallbackCount)
                        + (FallbackCount - fi + 1) + 1
                  [] pc = "raised" -> 1
                  [] OTHER -> 0
    IN  IF pc = "done" THEN 0 ELSE (3 - attempt_number) * perPass + rest

\* C9: a dispatch through _generate_with_retry terminates (every step lowers
\* a non-negative bound on the steps left); the wrapper invokes the cascade at
\* most 3 times and at most 3 * M * (1 + F) remote attempts are made, for a
\* cascade of M models and F fallback credentials.
C9_BoundedDispatch ==
    /\ [](GoogleCalled =>
            /\ attempt_number <= 3
            /\ Len(Attempts) <= 3 * CascadeSize * (1 + FallbackCount)
            /\ Rank >= 0)
    /\ [][GoogleCalled => Rank' < Rank]_vars

\* C9 witness: every attempt of every pass failed on a cascade of 5 models
\* with 2 fallback credentials, and the bound on the attempts was reached
C9_Witness ==
    /\ GoogleCalled
    /\ pc = "done"
    /\ result.kind = "Failure"
    /\ attempt_number = 3
    /\ CascadeSize = 5
    /\ FallbackCount = 2
    /\ Len(Attempts) = 3 * CascadeSize * (1 + FallbackCount)

\* no credential at all is configured for the provider called
NoCredential ==
    /\ pc \notin {"idle", "configured"}
    /\ IF provider = "google"
       THEN client_config.primary = NoClient /\ client_config.fallbacks = <<>>
       ELSE openrouter_client = NoClient

\* C10: without a credential for the requested provider the configuration
\* error is surfaced on the first invocation: no remote attempt, no backoff
\* and no second invocation of the cascade.
C10_ConfigErrorNotRetried ==
    NoCredential =>
      /\ Attempts = <<>>
      /\ EventsOf(trace, "backoff") = <<>>
      /\ attempt_number <= 1

----------------------------------------------------------------------------
(* Claims on the vector store *)

\* the texts of a mirror or of the durable table, in order
Texts(cs) == [i \in 1..Len(cs) |-> cs[i].text]

\* the last step completed an add_chunks call on store s: the call returned
\* after the bulk insert, or returned without anything to insert
AddCompleted(s) ==
    /\ call.store = s
    /\ \/ call.op = "add_chunks.insert"
       \/ call.op = "add_chunks" /\ call.completed

\* C11: after every completed add_chunks call on a store, also one whose
\* durable insert failed, the mirror and the durable table hold the same
\* accepted chunks in the same order.
C11_MirrorMatchesDurable ==
    \A s \in Stores : AddCompleted(s) => Rows(chunks[s]) = db

\* C12: after any sequence of add_chunks, clear and re-open operations the
\* number of chunks in a mirror (len(store)) and in the durable table never
\* exceeds MAX_VECTOR_STORE_CHUNKS.
C12_CeilingNeverExceeded ==
    /\ \A s \in Stores : Len(chunks[s]) <= MAX_VECTOR_STORE_CHUNKS
    /\ Len(db) <= MAX_VECTOR_STORE_CHUNKS

C14_EveryPassedTextStored ==
    (/\ call.op = "add_chunks"
     /\ call.before = <<>>
     /\ call.oracle.fails = {})
    => /\ Len(chunks[call.store]) = Len(call.texts)
       /\ Texts(chunks[call.store]) = call.texts

\* C15: re-opening a store on the durable file right after a completed
\* add_chunks call builds a mirror with the texts, in the same order, of the
\* mirror of the store that added the chunks.
C15_ReopenRebuildsMirror ==
    [][\A s, t \in Stores :
          (/\ AddCompleted(t)
           /\ call'.op = "__init__"
           /\ call'.store = s)
          => /\ Len(chunks'[s]) = Len(chunks[t])
             /\ Texts(chunks'[s]) = Texts(chunks[t])]_vars

\* C16: clear() empties the durable table and the mirror together: after it
\* returns len(store) is 0, the table has no rows and every search returns
\* an empty result.
C16_ClearEmptiesBoth ==
    call.op = "clear"
    => /\ Len(chunks[call.store]) = 0
       /\ Len(db) = 0
       /\ \A query \in QueryInputs, k \in KInputs :
             search(chunks[call.store], EmbeddingOf(query), k) = {Returned(<<>>)}

\* the cosine similarity of u to the query vector q, as its signed square
\* num / den; a vector of norm 0 has similarity 0
Cosine(u, q) ==
    IF NormSq(u) = 0 \/ NormSq(q) = 0 THEN [num |-> 0, den |-> 1]
    ELSE [num |-> SignedSquare(Dot(u, q)), den |-> NormSq(u) * NormSq(q)]

\* cos(u, q) <= cos(v, q) and cos(u, q) < cos(v, q)
CosineLeq(u, v, q) == Cosine(u, q).num * Cosine(v, q).den <= Cosine(v, q).num * Cosine(u, q).den
CosineLess(u, v, q) == ~CosineLeq(v, u, q)

\* the number of entries of a list equal to c
Count(c, cs) == Cardinality({i \in 1..Len(cs) : cs[i] = c})

\* text t is in the mirror of store s; a result holds the chunk of text t
Stored(s, t) == \E i \in 1..Len(chunks[s]) : chunks[s][i].text = t
InResult(t, r) == \E i \in 1..Len(r) : r[i].text = t

\* the last call was a search whose query is a text held by the store, with
\* the embedding call giving the vector of the text
SearchForStored ==
    /\ call.op = "search"
    /\ call.query_emb # NoEmbedding
    /\ Stored(call.store, call.query)

\* the stored chunks at least as similar to the query as the query's own chunk
AtLeastAsSimilar ==
    {i \in 1..Len(chunks[call.store]) :
        CosineLeq(call.query_emb, chunks[call.store][i].embedding, call.query_emb)}

\* C17 as stated: search(t, k) for a text t held by the store returns the
\* chunk of t among its results, whatever else is stored.
C17_StoredTextIsFound ==
    SearchForStored
    => call.ret.raised = None /\ InResult(call.query, call.ret.value)

\* C17: search(t, k) for a text t held by the store returns the chunk of t
\* among its results when the vector of t has a norm other than 0 and at
\* most k stored chunks are at least as similar to that vector as the chunk
\* of t itself.
C17_StoredTextIsFoundUnlessOutranked ==
    (/\ SearchForStored
     /\ NormSq(call.query_emb) # 0
     /\ Cardinality(AtLeastAsSimilar) <= call.k)
    => call.ret.raised = None /\ InResult(call.query, call.ret.value)

\* a stored text was searched with more chunks stored than k, and found
C17_Witness ==
    /\ SearchForStored
    /\ NormSq(call.query_emb) # 0
    /\ Cardinality(AtLeastAsSimilar) <= call.k
    /\ Len(chunks[call.store]) > call.k
    /\ InResult(call.query, call.ret.value)

\* a result r for the query vector q on the mirror cs: min(k, n) chunks of
\* the mirror, in non-increasing similarity, none left out more similar than
\* one returned
RankedTopK(r, cs, q, k) ==
    /\ Len(r) = Min(k, Len(cs))
    /\ \A i \in 1..Len(r) : Count(r[i], r) <= Count(r[i], cs)
    /\ \A i, j \in 1..Len(r) :
          i < j => CosineLeq(r[j].embedding, r[i].embedding, q)
    /\ \A c \in 1..Len(cs) :
          Count(cs[c], r) < Count(cs[c], cs)
          => \A i \in 1..Len(r) : ~CosineLess(r[i].embedding, cs[c].embedding, q)

\* C18 as stated: whenever the query embedding is available, search returns
\* exactly min(k, n) chunks ordered by non-increasing cosine similarity, and
\* no chunk left out is more similar than one returned.
C18_TopKWheneverEmbedded ==
    (call.op = "search" /\ call.query_emb # NoEmbedding)
    => /\ call.ret.raised = None
       /\ RankedTopK(call.ret.value, chunks[call.store], call.query_emb, call.k)

\* C18: when the query embedding is available and its norm is not 0, search
\* returns exactly min(k, n) chunks ordered by non-increasing cosine
\* similarity, and no chunk left out is more similar than one returned; when
\* its norm is 0, search returns the empty list.
C18_TopKForNonZeroQuery ==
    (call.op = "search" /\ call.query_emb # NoEmbedding)
    => /\ call.ret.raised = None
       /\ IF NormSq(call.query_emb) = 0 THEN call.ret.value = <<>>
          ELSE RankedTopK(call.ret.value, chunks[call.store], call.query_emb, call.k)

\* a search left out a chunk less similar than the ones it returned
C18_Witness ==
    /\ call.op = "search"
    /\ call.query_emb # NoEmbedding
    /\ NormSq(call.query_emb) # 0
    /\ call.ret.value # <<>>
    /\ \E c \in 1..Len(chunks[call.store]) :
          /\ Count(chunks[call.store][c], call.ret.value) = 0
          /\ \A i \in 1..Len(call.ret.value) :
                CosineLess(chunks[call.store][c].embedding,
                           call.ret.value[i].embedding, call.query_emb)

\* C19: when the embedding call returns nothing for the query, search
\* returns an empty list, raises nothing and leaves the mirror and the
\* durable table as they were.
C19_NoQueryEmbeddingGivesEmptyResult ==
    (call.op = "search" /\ call.query_emb = NoEmbedding)
    => /\ call.ret = Returned(<<>>)
       /\ call.before = <<chunks[call.store], db>>

\* a store that holds chunks was searched and the query was not embedded
C19_Witness ==
    /\ call.op = "search"
    /\ call.query_emb = NoEmbedding
    /\ chunks[call.store] # <<>>
    /\ db # <<>>

\* the configuration passed to get_embedding has a primary client
Configured(google_client) ==
    /\ google_client # NoConfig
    /\ \A cfg \in google_client : cfg.primary # NoClient

\* C20: get_embedding never raises; for an unconfigured provider (no
\* configuration or no primary client), an unsupported provider or a failing
\* remote call it returns an empty (falsy) value.
C20_GetEmbeddingNeverRaises ==
    embedding.op = "get_embedding"
    => /\ embedding.ret.raised = None
       /\ (\/ embedding.provider # "google"
           \/ ~Configured(embedding.google_client)
           \/ embedding.remote # OK)
          => embedding.ret.value = <<>>

\* the remote call failed under a configured Google provider
C20_Witness ==
    /\ embedding.op = "get_embedding"
    /\ embedding.provider = "google"
    /\ Configured(embedding.google_client)
    /\ embedding.remote # OK
    /\ embedding.ret = Returned(<<>>)

\* the incoming texts add_chunks looks at for a store that holds `held`
\* chunks: all of them, or the first ones up to the ceiling
Considered(texts, held) ==
    SubSeq(texts, 1, Min(Len(texts), Max(0, MAX_VECTOR_STORE_CHUNKS - held)))

\* the chunks the last add_chunks call appended to the mirror
Added == SubSeq(chunks[call.store], Len(call.before) + 1, Len(chunks[call.store]))

\* the considered texts that are long enough and got an embedding, from the
\* batch call of their batch or from their own call: the texts recorded in
\* call.oracle.fails are those whose own call returned nothing
ExpectedAccepted ==
    LET ts == Considered(call.texts, Len(call.before))
        kept == SelectSeq([i \in 1..Len(ts) |-> i],
                          LAMBDA i : /\ Length(ts[i]) >= MIN_CHUNK_LENGTH
                                     /\ i \notin call.oracle.fails)
    IN [j \in 1..Len(kept) |-> ts[kept[j]]]

\* C21: when the batch embedding call of a batch fails or returns a wrong
\* count, each text of the batch is embedded on its own: every text whose
\* own call succeeds is accepted, a text whose own call fails is skipped
\* alone, and the texts of the other batches are accepted as their batch
\* call returned them.
C21_BatchFallbackPerText ==
    call.op = "add_chunks" => Texts(Added) = ExpectedAccepted

\* a call of two batches: the batch call of one succeeded, the other fell
\* back to one call per text, of which one failed and one succeeded
C21_Witness ==
    /\ call.op = "add_chunks"
    /\ call.oracle.batch_ok # {}
    /\ call.oracle.fails # {}
    /\ Len(Added) = Len(call.texts) - 1
    /\ Len(call.texts) > BATCH_SIZE

\* list a is a prefix of list b; list a is b with some entries left out
IsPrefix(a, b) == Len(a) <= Len(b) /\ SubSeq(b, 1, Len(a)) = a
RECURSIVE IsSubseq(_, _)
IsSubseq(a, b) ==
    IF a = <<>> THEN TRUE
    ELSE IF b = <<>> THEN FALSE
    ELSE IF Head(a) = Head(b) THEN IsSubseq(Tail(a), Tail(b))
    ELSE IsSubseq(a, Tail(b))

\* the step is the batch loop, or the bulk insert, of an add_chunks call on
\* store s
AddChunksStep(s) ==
    /\ ncalls' = ncalls + 1
    /\ call'.op = "add_chunks"
    /\ call'.store = s
InsertStep(s) == store_pc[s] = "insert" /\ store_pc'[s] = "idle"

\* C22: add_chunks never removes, reorders or alters a chunk of the store;
\* when the current length plus the incoming texts exceeds the ceiling only
\* the first (ceiling - current length) incoming texts are considered, the
\* cut coming before the minimum-length filter; on a full store the call
\* changes neither the mirror nor the durable table.
C22_AddOnlyAppendsWithinCeiling ==
    [][\A s \in Stores :
          /\ AddChunksStep(s)
             => /\ IsPrefix(chunks[s], chunks'[s])
                /\ \A t \in Stores \ {s} : chunks'[t] = chunks[t]
                /\ db' = db
                /\ IsSubseq(Texts(SubSeq(chunks'[s], Len(chunks[s]) + 1, Len(chunks'[s]))),
                            Considered(call'.texts, Len(chunks[s])))
                /\ Len(chunks[s]) >= MAX_VECTOR_STORE_CHUNKS
                   => chunks'[s] = chunks[s] /\ new_entries'[s] = <<>> /\ call'.completed
          /\ InsertStep(s)
             => IsPrefix(db, db') /\ chunks' = chunks]_vars

\* a call whose list was cut: a short text inside the cut was rejected and a
\* long text beyond it was dropped although the store is still not full
C22_Witness ==
    /\ call.op = "add_chunks"
    /\ Len(call.before) + Len(call.texts) > MAX_VECTOR_STORE_CHUNKS
    /\ Len(chunks[call.store]) < MAX_VECTOR_STORE_CHUNKS
    /\ Len(Added) > 0
    /\ \E i \in 1..Len(call.texts) :
          /\ i <= MAX_VECTOR_STORE_CHUNKS - Len(call.before)
          /\ Length(call.texts[i]) < MIN_CHUNK_LENGTH
    /\ \E i \in 1..Len(call.texts) :
          /\ i > MAX_VECTOR_STORE_CHUNKS - Len(call.before)
          /\ Length(call.texts[i]) >= MIN_CHUNK_LENGTH

\* the chunks of the rows that decode, in table order
RECURSIVE Decodable(_)
Decodable(rows) ==
    IF rows = <<>> THEN <<>>
    ELSE LET r == _load_row(Head(rows))
         IN (IF r.raised = None THEN <<r.value>> ELSE <<>>) \o Decodable(Tail(rows))

\* the last step built a store object and read the table without a
\* database error
Loaded == call.op = "__init__" /\ ~call.db_error

\* C23: after a store object is built, its mirror holds exactly the records
\* of the table that decode, in table order: a record that does not decode
\* is left out and the records before and after it are loaded
C23_LoadSkipsCorruptedRecords ==
    Loaded => chunks[call.store] = Decodable(db)

\* the last call was a search that got as far as the scores: the mirror
\* holds chunks and the query was embedded with a norm other than 0
Scored ==
    /\ call.op = "search"
    /\ chunks[call.store] # <<>>
    /\ call.query_emb # NoEmbedding
    /\ NormSq(call.query_emb) # 0

\* the stored chunks whose embedding has norm 0
ZeroNorm(cs) == {i \in 1..Len(cs) : NormSq(cs[i].embedding) = 0}

\* C24: search raises no error on vectors of norm 0: no score is computed
\* with a divisor of 0, a stored chunk whose embedding has norm 0 gets the
\* score 0, and a query embedding of norm 0 gives an empty result
C24_ZeroNormIsZeroSimilarity ==
    /\ call.op = "search" => call.ret.raised = None
    /\ Scored =>
          LET cs == chunks[call.store]
          IN /\ \A i \in 1..Len(cs) : Score(cs[i].embedding, call.query_emb).div > 0
             /\ \A i \in ZeroNorm(cs) : Score(cs[i].embedding, call.query_emb).dot = 0
    /\ (/\ call.op = "search"
        /\ call.query_emb # NoEmbedding
        /\ NormSq(call.query_emb) = 0)
       => call.ret = Returned(<<>>)

\* a search with a query of norm other than 0 on a store that holds a chunk
\* of norm 0 and another chunk, both returned
C24_Witness ==
    /\ Scored
    /\ ZeroNorm(chunks[call.store]) # {}
    /\ \E i \in 1..Len(call.ret.value) : NormSq(call.ret.value[i].embedding) = 0
    /\ \E i \in 1..Len(call.ret.value) : NormSq(call.ret.value[i].embedding) # 0

\* a is the end of b
IsSuffix(a, b) ==
    /\ Len(a) <= Len(b)
    /\ SubSeq(b, Len(b) - Len(a) + 1, Len(b)) = a

\* C25: when add_chunks calls made through two store objects on one file
\* interleave, the bulk insert of each call changes the table in one step
\* that appends all the rows of the call, none of them partially, and after
\* the step the table holds every row the call accepted
C25_InterleavedInsertsKeepEveryRow ==
    [][\A s \in Stores :
          InsertStep(s)
          => /\ db' = db \/ db' = db \o new_entries[s]
             /\ IsPrefix(db, db')
             /\ IsSuffix(new_entries[s], db')]_vars

\* the lines of the response, after the fence is taken off, that hold a
\* quote and a delimiter once stripped
RowLines(text_resp) ==
    LET lines == splitlines(unfence(text_resp))
    IN {i \in 1..Len(lines) : looks_like_row(strip(lines[i]))}

Records(sources) ==
    LET idx == SelectSeq([i \in 1..Len(sources) |-> i], LAMBDA i : sources[i].record)
    IN [j \in 1..Len(idx) |-> sources[idx[j]].row]

\* C28: a text whose lines are records written as two quoted fields with
\* a tab between them, and malformed lines among them, parses to exactly
\* the records, in order: each record comes back field by field and every
\* malformed line is skipped
C28_RoundTripAndSkipMalformed ==
    io.op = "robust_csv_parse" => io.ret = Records(io.sources)

\* the outcome of the chunk at a position of the loop
ChunkAt(n) ==
    LET pos == Positions(gen.chapters_data)[n]
    IN gen.chapters_data[pos[1]][pos[2]]

\* the chunks whose generation failed
Failed(n) == ChunkAt(n).kind # "text"

\* the cards of the chunk at a position: the rows of its response, with
\* the deck of its chapter; none for a chunk whose generation failed
Cards(n) ==
    LET rows == IF Failed(n) THEN <<>> ELSE robust_csv_parse(cleanup(ChunkAt(n).text))
    IN [j \in 1..Len(rows) |-> [Front |-> rows[j].Front, Back |-> rows[j].Back,
                                 Deck |-> Positions(gen.chapters_data)[n][1]]]

\* the cards of the chunks from position n on
RECURSIVE AllCards(_)
AllCards(n) ==
    IF n > Len(Positions(gen.chapters_data)) THEN <<>>
    ELSE Cards(n) \o AllCards(n + 1)

\* the cards among cards whose question, in small letters, is not among
\* the questions seen, the questions of the cards before them included
RECURSIVE NewCards(_, _)
NewCards(cards, seen) ==
    IF cards = <<>> THEN <<>>
    ELSE LET q == lower(Head(cards).Front)
         IN IF q \in seen THEN NewCards(Tail(cards), seen)
            ELSE <<Head(cards)>> \o NewCards(Tail(cards), seen \cup {q})

\* the cards kept of the chunks from position n on, when the questions
\* seen were generated before: all cards of a chunk as long as no question
\* was generated, the new cards of a chunk after that
RECURSIVE KeptCards(_, _)
KeptCards(n, seen) ==
    IF n > Len(Positions(gen.chapters_data)) THEN <<>>
    ELSE LET kept == IF seen = {} THEN Cards(n) ELSE NewCards(Cards(n), seen)
         IN kept \o KeptCards(n + 1, seen \cup {lower(kept[j].Front) : j \in 1..Len(kept)})

\* the loop has run through: every chunk of every chapter was processed
\* and the handler ended without an exception of process_chunk
RanThrough ==
    /\ Len(gen.csv_chunks) = Len(Positions(gen.chapters_data))
    /\ \A n \in 1..Len(gen.csv_chunks) :
          Failed(n) => startswith(gen.csv_chunks[n], <<ErrorWord>>)

\* C26 as stated: when the batch is done every chunk of every chapter was
\* processed, a failed chunk gave an error value, and the result holds all
\* cards of the chunks that succeeded
C26_FailedChunkLosesNoCard ==
    gen.pc = "done" => RanThrough /\ gen.result_df = AllCards(1)

\* C26: when the batch is done every chunk of every chapter was processed,
\* a failed chunk gave an error value, and the result holds, in order, the
\* cards of the chunks that succeeded, except that, once a question has
\* been generated, a card is dropped whose question repeats, whatever the
\* case of its letters, a question generated before it
C26_FailedChunkLosesNoNewCard ==
    gen.pc = "done" => RanThrough /\ gen.result_df = KeptCards(1, {})

\* a batch of three chunks in two chapters is done: the second chunk
\* failed, the first and the third gave cards, and the result holds cards of
\* both chapters
C26_Witness ==
    /\ gen.pc = "done"
    /\ Len(gen.csv_chunks) = 3
    /\ Failed(2)
    /\ Cards(1) # <<>>
    /\ Cards(3) # <<>>
    /\ \E j \in 1..Len(gen.result_df) : gen.result_df[j].Deck = 1
    /\ \E j \in 1..Len(gen.result_df) : gen.result_df[j].Deck = 2
    /\ Len(gen.result_df) < Len(AllCards(1))

\* C29: register for an address that is not registered returns success
\* and leaves for it a bcrypt hash that verifies the password, neither the
\* plain text nor a SHA-256 hash, as in the tests for 'password123'
C29_RegisterStoresBcryptHash ==
    (auth.call.op = "register" /\ ~auth.call.before.registered)
    => /\ auth.call.success
       /\ auth.user.registered
       /\ auth.user.password_hash.scheme = "bcrypt"
       /\ auth.user.password_hash # plain(auth.call.password)
       /\ auth.user.password_hash # sha256_hash(auth.call.password)
       /\ _verify_password(auth.user.password_hash, auth.call.password).is_valid

\* the last call was a login for a registered user
LoginOfRegistered == auth.call.op = "login" /\ auth.call.before.registered

\* the password of the last call is the one the user is registered with
RegisteredPassword ==
    \/ auth.call.before.password_hash = bcrypt_hash(auth.call.password)
    \/ auth.call.before.password_hash = sha256_hash(auth.call.password)

LoginStep == auth'.login = auth.login + 1

RateLimited ==
    auth.call.message \in {"Too many login attempts.", "Too many registration attempts."}

\* C36: a call of login or register made while get_remaining_attempts
\* reported at least one remaining attempt is not refused as rate-limited,
\* and a call is refused only when none remained: a fresh identifier gets
\* MAX_ATTEMPTS attempts that reach the password
C36_RemainingAttemptsAreAccepted ==
    auth.call.op \in {"login", "register"}
    => (RateLimited <=> get_remaining_attempts(auth.call.attempts - 1) = 0)

\* the last call was a save_keys for a registered user
Saved == auth.call.op = "save_keys" /\ auth.call.success

\* the last call was a get_keys right after such a save_keys
GotSaved ==
    /\ auth.call.op = "get_keys"
    /\ auth.call.saved.op = "save_keys"
    /\ auth.call.saved.success

\* decrypt returns a value without the marker as it is
Passthrough ==
    \A value \in KeyValueInputs : ~is_encrypted(value) => decrypt(value) = value

\* C31 as stated: after save_keys every value saved that is not empty is
\* stored with the marker and differs from the value passed, get_keys
\* returns for every provider the value passed, and decrypt returns a
\* value without the marker as it is
C31_KeysEncryptedAndReturned ==
    /\ Saved => \A provider_ \in DOMAIN auth.call.keys :
                   auth.call.keys[provider_].kind # "empty"
                   => /\ is_encrypted(auth.api_keys[provider_])
                      /\ auth.api_keys[provider_] # auth.call.keys[provider_]
    /\ GotSaved => \A provider_ \in DOMAIN auth.call.saved.keys :
                      auth.call.ret[provider_] = auth.call.saved.keys[provider_]
    /\ Passthrough

\* C31: after save_keys a value passed that is not empty and does not
\* start with the marker is stored as the marker and a token of it, and
\* get_keys returns it; a value passed that starts with the marker is
\* stored as it is, and get_keys returns what decrypt makes of it; an
\* empty value is stored and returned as it is; decrypt returns a value
\* without the marker as it is; after get_keys no stored value is a plain
\* text
C31_UnmarkedKeysEncryptedAndReturned ==
    /\ Saved => \A provider_ \in DOMAIN auth.call.keys :
                   LET key_value == auth.call.keys[provider_]
                   IN IF key_value.kind # "empty" /\ ~is_encrypted(key_value)
                      THEN /\ auth.api_keys[provider_] = Token(key_value)
                           /\ is_encrypted(auth.api_keys[provider_])
                           /\ auth.api_keys[provider_] # key_value
                      ELSE auth.api_keys[provider_] = key_value
    /\ GotSaved => \A provider_ \in DOMAIN auth.call.saved.keys :
                      LET key_value == auth.call.saved.keys[provider_]
                      IN auth.call.ret[provider_] =
                            IF is_encrypted(key_value) THEN decrypt(key_value)
                            ELSE key_value
    /\ Passthrough
    /\ auth.call.op = "get_keys" => ~needs_migration(auth.api_keys)

\* two keys were saved, both are stored as tokens, and get_keys returned
\* both as they were passed
C31_Witness ==
    /\ GotSaved
    /\ DOMAIN auth.call.saved.keys = Providers
    /\ \A provider_ \in Providers :
          /\ auth.call.saved.keys[provider_].kind = "text"
          /\ ~auth.call.saved.keys[provider_].marked
          /\ auth.api_keys[provider_].kind = "token"
          /\ auth.call.ret[provider_] = auth.call.saved.keys[provider_]

\* the tokens issued for an address
IssuedFor(a, email, token) ==
    {i \in a.issued : i.email = email /\ i.token = token}

\* what holds of the user manager a after every call: a validation that
\* returned true was of a token issued for that address, neither expired
\* nor invalidated nor found expired before; and no token invalidated or
\* found expired is in the store
SessionRules(a) ==
    /\ (a.call.op = "validate_session" /\ a.call.ret)
       => /\ \E i \in IssuedFor(a, a.call.email, a.call.token) : a.now <= i.expiry
          /\ [email |-> a.call.email, token |-> a.call.token] \notin a.ended
    /\ \A e \in a.ended :
          e.email \in DOMAIN a.data => e.token \notin DOMAIN a.data[e.email]

\* the step ends the token of the address: it invalidates it
EndsToken(email, token) ==
    /\ auth'.call.op = "invalidate_session"
    /\ auth'.call.email = email
    /\ auth'.call.token = token

Completed == auth.call.op = "complete_password_reset"

\* C38: complete_password_reset succeeds only with the code that the
\* latest initiate_password_reset stored for the address, not used by a
\* reset before and not past its expiry; a successful call stores the
\* hash of the new password and clears the code; every failed call leaves
\* the stored password hash as it was
C38_ResetOnlyWithLiveLatestCode ==
    Completed
    => /\ auth.call.success
          => /\ auth.call.code = auth.call.issued.code
             /\ ~auth.call.issued.used
             /\ auth.call.at <= auth.call.issued.expiry
             /\ auth.user.password_hash = _hash_password(auth.call.new_password)
             /\ auth.user.reset_code = NoCode
       /\ ~auth.call.success
          => auth.user.password_hash = auth.call.before.password_hash

\* a reset to a new password succeeded, and a second call with the same
\* code and another strong password, let through by the rate limiter,
\* failed and changed nothing
C38_Witness ==
    /\ Completed
    /\ ~auth.call.success
    /\ auth.call.issued.used
    /\ auth.call.code = auth.call.issued.code
    /\ auth.call.new_password = Password123
    /\ auth.call.message = InvalidCode
    /\ auth.user = auth.call.before
    /\ auth.user.password_hash = bcrypt_hash(NewPassword1)

\* C39: initiate_password_reset returns the same success flag and the
\* same message as the same call on a file that differs only in whether
\* the address is registered
C39_ResetReturnHidesRegistration ==
    auth.call.op = "initiate_password_reset"
    => /\ auth.call.success = auth.call.other.success
       /\ auth.call.message = auth.call.other.message

\* session s completed an operation that changed the file
Modified(s) == auth.session[s].pc = "done" /\ auth.session[s].ok

\* the file holds the change of session s
Reflected(s) ==
    LET op == auth.session[s].op
    IN /\ ~auth.file.torn
       /\ op.email \in DOMAIN auth.file.data
       /\ op.kind # "register" => <<op.kind, s>> \in auth.file.data[op.email]

\* C40: when both sessions have completed a modifying operation, the file
\* holds both changes, whatever the order of their load and save steps
C40_NoLostUpdate ==
    (Modified(1) /\ Modified(2)) => (Reflected(1) /\ Reflected(2))

\* the splitter was called
Split == io.op = "recursive_character_text_splitter"

\* the chunks one after another
RECURSIVE Joined(_)
Joined(parts) == IF parts = <<>> THEN <<>> ELSE Head(parts) \o Joined(Tail(parts))

\* the text holds no space and no end of a sentence
NoSplitPoints(text) ==
    \A i \in 1..Len(text) : text[i] \notin Whitespace \cup SentenceEnders

\* C33: the splitter ends; the start of every chunk after the first lies
\* beyond the start of the chunk before it; no chunk is longer than
\* chunk_size; the chunks cover the text in order and without a gap (the
\* first starts at the start, every next one starts at or before the end
\* of the one before it, the last ends at the end); with overlap 0 on a
\* text without split points the chunks joined are the text; and 100
\* characters at size 30 without overlap give chunks of 30, 30, 30 and 10
C33_SplitterEndsAndCovers ==
    Split
    => /\ io.done
       /\ io.chunks # <<>>
       /\ \A i \in 1..Len(io.chunks) :
             /\ Len(io.chunks[i]) <= io.chunk_size
             /\ io.chunks[i] = slice(io.text, io.spans[i].from, io.spans[i].to)
             /\ i > 1 => /\ io.spans[i].from > io.spans[i - 1].from
                         /\ io.spans[i].from <= io.spans[i - 1].to
       /\ io.spans[1].from = 0
       /\ io.spans[Len(io.spans)].to = Len(io.text)
       /\ (io.overlap = 0 /\ NoSplitPoints(io.text)) => Joined(io.chunks) = io.text
       /\ (Len(io.text) = 100 /\ io.chunk_size = 30 /\ io.overlap = 0)
          => [i \in 1..Len(io.chunks) |-> Len(io.chunks[i])] = <<30, 30, 30, 10>>

\* a text of 12 characters was cut after the end of a sentence, and the
\* next chunk starts two characters before the cut
C33_Witness ==
    /\ Split
    /\ Len(io.text) = 12
    /\ io.chunk_size = 10
    /\ io.overlap = 2
    /\ Len(io.chunks) = 2
    /\ io.spans[1].to = 10
    /\ io.text[9] = DOT
    /\ io.spans[2].from = 8

\* the positions of the texts that are long enough and got an embedding,
\* from the batch call or from their own call
AcceptedIndices ==
    SelectSeq([i \in 1..Len(io.texts) |-> i],
              LAMBDA i : /\ Length(io.texts[i]) >= MIN_CHUNK_LENGTH
                         /\ i \notin io.oracle.fails)

\* C34: the chunks add_chunks stores are, in order, one per accepted
\* position of the input, each with the text at that position, the
\* metadata passed at that position and the embedding computed for that
\* text
C34_ChunksKeepInputPairing ==
    io.op = "add_chunks"
    => io.added = [j \in 1..Len(AcceptedIndices) |->
                      Chunk(io.texts[AcceptedIndices[j]],
                            io.metadata[AcceptedIndices[j]],
                            EmbeddingOf(io.texts[AcceptedIndices[j]]))]

\* four texts with a short one first: the three long ones fill two
\* batches, the batch call of the second succeeded, the first fell back to
\* one call per text, of which one failed; the two chunks stored carry the
\* metadata of the positions 3 and 4
C34_Witness ==
    /\ io.op = "add_chunks"
    /\ Len(io.texts) = 4
    /\ io.texts[1] = apple
    /\ io.oracle.batch_ok = {2}
    /\ io.oracle.fails = {2}
    /\ Len(io.added) = 2
    /\ io.added[1].metadata = SourceDict("3")
    /\ io.added[2].metadata = SourceDict("4")
    /\ io.added[1].text # io.added[2].text

\* no two of the fronts are the same once lower-cased and stripped
NoRepeatedFront(fronts) ==
    \A i, j \in 1..Len(fronts) :
        i # j => lower(strip(fronts[i])) # lower(strip(fronts[j]))

\* C35: no frame that deduplicate_cards returned holds two cards with
\* the same normalized Front, and the generated_questions gathered over
\* the chunks of a run never hold the same question twice
C35_NoDuplicateQuestion ==
    /\ \A n \in 1..Len(gen.all_dfs) :
          NoRepeatedFront([j \in 1..Len(gen.all_dfs[n].rows) |->
                              gen.all_dfs[n].rows[j].Front])
    /\ NoRepeatedFront(gen.generated_questions)

====
